---- MODULE Spec2Model ----
(***************************************************************************)
(* Entry Turbo: block compiler, compilation cache and cooperative          *)
(* scheduler.                                                              *)
(*                                                                         *)
(* Two programs of the repository are modelled.                            *)
(*  - The standalone runtime (src/unnamed/part_000, lines 1032-2591:       *)
(*    BlockCompiler, TurboRuntime, TurboEntity).  The bundled copy of the  *)
(*    same design (part_000 lines 11-1030) differs only where a comment    *)
(*    says so.                                                             *)
(*  - The injected JIT (src/scripts/entry-turbo/src/entry-turbo.js:        *)
(*    TurboCompiler, TurboRuntime, EntryTurbo), whose definitions carry    *)
(*    the prefix Turbo.                                                    *)
(*                                                                         *)
(* Every compiled thread is an `async function*`.  Calling next() on the   *)
(* object it returns runs the body synchronously up to its next yield and  *)
(* returns a Promise, so the scheduler's `result.done` and `result.value`  *)
(* are both undefined (see GeneratorNext).                                 *)
(***************************************************************************)
EXTENDS Integers, Sequences, FiniteSets, TLC

VARIABLES
    project,          \* the project document handed to loadProject
    running,          \* TurboRuntime.running
    paused,           \* TurboRuntime.paused
    rafId,            \* TRUE while a frame callback is scheduled
    frames,           \* the frame callbacks requested and not yet run or cancelled
    loaded,           \* TRUE once loadProject has loaded the document
    heap,             \* the TurboEntity objects of the project's objects
    cloneHeap,        \* the TurboEntity objects made by clone()
    entities,         \* TurboRuntime.entities: references of the primary entities
    objects,          \* TurboRuntime.objects: object id -> reference
    clones,           \* TurboRuntime.clones: references of the live clones
    executors,        \* TurboRuntime.executors
    pendingExecutors, \* TurboRuntime.pendingExecutors
    eventListeners,   \* TurboRuntime.eventListeners: key -> <<[entity, fn]>>
    cache,            \* BlockCompiler.cache: key -> compiled function
    fns,              \* the compiled functions in existence: function -> body
    lastOp,           \* history: the operation that produced this state
    hist,             \* history: what the last operation observed
    clock,            \* the time the last frame read from performance.now()
    variables,        \* TurboRuntime.variables: variable id -> value
    injected,         \* EntryTurbo.injected
    active,           \* EntryTurbo.active
    hooks,            \* the wrappers inject() has put around Entry.Executor
    engine,           \* Entry.engine's toggleRun and toggleStop, and the
                      \* copies EntryTurbo keeps of the ones it replaced
    tcache,           \* TurboCompiler.cache: key -> compiled function
    made,             \* the functions TurboCompiler has handed out so far
    codeExecutors,    \* the host executors that carry a _turboGenerator
    tlast,            \* history: the last call of TurboCompiler.compileThread
    seen,             \* history: (tree, owner) -> function last returned
    compiles,         \* history: (tree, owner) -> compilations since the clear
    early,            \* history: a broadcastWait returned before its handlers
    answered,         \* TRUE once the host's input field has been submitted
    askEarly,         \* history: an askAndWait returned with no answer given
    stepOrder,        \* history: the executors the last tick stepped, in order
    labThread,        \* the compiler and the thread whose generated code runs
    gen,              \* the generator of that code: position, loop variables
    trace,            \* history: what the generator has done so far
    call              \* the last call of a compiler or runtime helper: its
                      \* arguments and what it returned

standaloneVars ==
    <<project, running, paused, rafId, frames, loaded, heap, cloneHeap, entities, objects,
      clones, executors, pendingExecutors, eventListeners, cache, fns,
      lastOp, hist, clock, variables>>

turboVars ==
    <<injected, active, hooks, engine, tcache, made, codeExecutors, tlast, seen,
      compiles, early, answered, askEarly, stepOrder>>

labVars == <<labThread, gen, trace, call>>

vars == <<standaloneVars, turboVars, labVars>>

----------------------------------------------------------------------------
(* Blocks and projects *)

Num(n) == [k |-> "num", n |-> n, s |-> ""]
Str(s) == [k |-> "str", n |-> 0, s |-> s]
\* a block with nested statement bodies, and one without
BlkS(type, params, statements) ==
    [type |-> type, params |-> params, statements |-> statements]
Blk(type, params) == BlkS(type, params, <<>>)

None == "none"

\* The project documents that are loaded.  "main" and "hidden" differ in the
\* initial visibility of obj2; "solo" is a one-object project.
Projects == {"main", "hidden", "solo", "events"}

Obj(id, x, visible, pictures, script) ==
    [id |-> id, entity |-> [x |-> x, y |-> 0, rotation |-> 0, visible |-> visible],
     pictures |-> pictures, script |-> script]

MainObjects(obj2Visible) ==
    << Obj("obj1", 0, TRUE, 2,
         << << Blk("when_run_button_click", <<>>),
               Blk("locate_x", <<Num(1)>>),
               Blk("message_cast_wait", <<Str("m1")>>),
               Blk("change_to_next_shape", <<>>) >>,
            << Blk("when_run_button_click", <<>>),
               Blk("rotate_by_angle", <<Num(90)>>),
               Blk("add_value_to_list", <<Num(1), Str("list1")>>),
               Blk("hide", <<>>) >>,
            << Blk("when_some_key_pressed", <<Num(32)>>),
               Blk("create_clone", <<Str("obj2")>>),
               Blk("message_cast", <<Str("m2")>>) >> >>),
       Obj("obj2", 2, obj2Visible, 1,
         << << Blk("when_message_cast", <<Str("m1")>>),
               Blk("wait_second", <<Num(1)>>),
               Blk("hide", <<>>) >>,
            << Blk("when_clone_start", <<>>),
               Blk("locate_y", <<Num(1)>>),
               Blk("wait_second", <<Num(1)>>),
               Blk("delete_clone", <<>>) >>,
            << Blk("when_message_cast", <<Str("m2")>>),
               Blk("rotate_by_angle", <<Num(90)>>) >>,
            << Blk("when_run_button_click", <<>>),
               Blk("rotate_by_angle", <<Num(90)>>) >> >>),
       Obj("obj3", 1, TRUE, 1,
         << << Blk("when_object_click", <<>>),
               Blk("locate_x", <<Num(2)>>) >>,
            << Blk("comment", <<>>),
               Blk("hide", <<>>) >> >>) >>

SoloObjects ==
    << Obj("obj1", 0, TRUE, 1,
         << << Blk("when_clone_start", <<>>),
               Blk("locate_x", <<Num(1)>>) >>,
            << Blk("when_run_button_click", <<>>),
               Blk("stop_repeat", <<>>) >> >>) >>

\* a project of key and clone scripts with one variable
EventObjects ==
    << Obj("obj1", 0, TRUE, 1,
         << << Blk("when_some_key_pressed", <<Num(32)>>),
               Blk("create_clone", <<Str("obj2")>>) >>,
            << Blk("when_some_key_pressed", <<Num(65)>>),
               Blk("rotate_by_angle", <<Num(90)>>),
               Blk("delete_clone", <<>>),
               Blk("set_variable", <<Num(5), Str("v")>>),
               Blk("locate_x", <<Num(3)>>) >>,
            << Blk("when_clone_start", <<>>),
               Blk("locate_y", <<Num(7)>>) >> >>),
       Obj("obj2", 2, TRUE, 1,
         << << Blk("when_some_key_pressed", <<Num(32)>>),
               Blk("rotate_by_angle", <<Num(90)>>) >>,
            << Blk("when_some_key_pressed", <<Num(65)>>),
               Blk("hide", <<>>),
               Blk("set_scale_size", <<Num(200)>>) >>,
            << Blk("when_clone_start", <<>>),
               Blk("locate_y", <<Num(1)>>),
               Blk("delete_clone", <<>>),
               Blk("locate_x", <<Num(9)>>) >>,
            << Blk("when_clone_start", <<>>),
               Blk("rotate_by_angle", <<Num(90)>>) >>,
            << Blk("when_object_click", <<>>),
               Blk("locate_y", <<Num(5)>>) >> >>) >>

ObjectsOf(p) ==
    CASE p = "main"   -> MainObjects(TRUE)
      [] p = "hidden" -> MainObjects(FALSE)
      [] p = "solo"   -> SoloObjects
      [] p = "events" -> EventObjects

\* projectData.messages: the messages the document declares
MessagesOf(p) == IF p \in {"solo", "events"} THEN <<>> ELSE <<"m2">>

\* projectData.variables: the variables the document declares
VariablesOf(p) == IF p = "events" THEN <<[id |-> "v", value |-> 0]>> ELSE <<>>

----------------------------------------------------------------------------
(* BlockCompiler *)

Digit == <<"0", "1", "2", "3", "4", "5", "6", "7", "8", "9">>

RECURSIVE NumberToString(_)
NumberToString(n) ==
    IF n < 10 THEN <<Digit[n + 1]>>
    ELSE NumberToString(n \div 10) \o <<Digit[(n % 10) + 1]>>

\* JSON.stringify of one parameter: a number prints bare, a string in quotes
StringifyParam(p) ==
    IF p.k = "num" THEN NumberToString(p.n) ELSE <<"\"", p.s, "\"">>

RECURSIVE StringifyParams(_)
StringifyParams(ps) ==
    IF ps = <<>> THEN <<>>
    ELSE StringifyParam(Head(ps))
         \o (IF Len(ps) > 1 THEN <<",">> ELSE <<>>)
         \o StringifyParams(Tail(ps))

\* JSON.stringify of a block list, of a list of block lists and of a block,
\* as the sequence of the pieces of the text
RECURSIVE StringifyBlocks(_), StringifyBodies(_), StringifyBlock(_)
StringifyBlock(b) ==
    <<"{\"type\":", "\"", b.type, "\"", ",\"params\":[">>
    \o StringifyParams(b.params)
    \o <<"],\"statements\":[">> \o StringifyBodies(b.statements) \o <<"]}">>

StringifyBlocks(bs) ==
    IF bs = <<>> THEN <<>>
    ELSE StringifyBlock(Head(bs))
         \o (IF Len(bs) > 1 THEN <<",">> ELSE <<>>)
         \o StringifyBlocks(Tail(bs))

StringifyBodies(ss) ==
    IF ss = <<>> THEN <<>>
    ELSE <<"[">> \o StringifyBlocks(Head(ss)) \o <<"]">>
         \o (IF Len(ss) > 1 THEN <<",">> ELSE <<>>)
         \o StringifyBodies(Tail(ss))

\* JSON.stringify(thread)
Stringify(thread) == <<"[">> \o StringifyBlocks(thread) \o <<"]">>

LoopTypes == {"repeat_basic", "repeat_inf", "repeat_while_true"}

\* Whether new Function(code) accepts the text generated for the blocks bs.
\* stop_repeat compiles to `break;`, a SyntaxError outside a loop statement;
\* the loop blocks wrap their body in for/while, _if and if_else in if/else.
RECURSIVE BlocksOK(_, _), BodiesOK(_, _)
BlocksOK(bs, inLoop) ==
    \A i \in 1..Len(bs) :
        /\ bs[i].type = "stop_repeat" => inLoop
        /\ BodiesOK(bs[i].statements, inLoop \/ bs[i].type \in LoopTypes)

BodiesOK(ss, inLoop) == \A j \in 1..Len(ss) : BlocksOK(ss[j], inLoop)

SyntaxOK(thread) == BlocksOK(thread, FALSE)

\* createFunction: the function the generated code denotes, or the empty
\* generator function when new Function throws.
createFunction(thread) == IF SyntaxOK(thread) THEN thread ELSE <<>>

\* compileThread(thread) on the cache c and function table f:
\* [fn, cache, fns] after the call
compileThread(thread, c, f) ==
    LET cacheKey == Stringify(thread) IN
    IF cacheKey \in DOMAIN c
    THEN [fn |-> c[cacheKey], cache |-> c, fns |-> f]
    ELSE LET compiledFn == Len(f) + 1 IN
         [fn |-> compiledFn,
          cache |-> [k \in DOMAIN c \cup {cacheKey} |->
                        IF k = cacheKey THEN compiledFn ELSE c[k]],
          fns |-> Append(f, createFunction(thread))]

----------------------------------------------------------------------------
(* TurboEntity *)

\* saveInitialState: the snapshot taken at the end of the constructor
saveInitialState(e) ==
    [x |-> e.x, y |-> e.y, rotation |-> e.rotation, visible |-> e.visible,
     scaleX |-> e.scaleX, scaleY |-> e.scaleY,
     currentCostumeIndex |-> e.currentCostumeIndex]

\* new TurboEntity(runtime, objData): costumes are pushed by loadObject later,
\* so the snapshot records currentCostumeIndex 0.  scaleX and scaleY are in
\* hundredths (100 is the factor 1), size is the percentage the code keeps.
NewEntity(objData) ==
    LET e == [id |-> objData.id, isClone |-> FALSE,
              x |-> objData.entity.x, y |-> objData.entity.y,
              rotation |-> objData.entity.rotation,
              visible |-> (objData.entity.visible # FALSE),
              scaleX |-> 100, scaleY |-> 100, size |-> 100,
              costumes |-> 0, currentCostumeIndex |-> 0]
    IN  [id |-> e.id, isClone |-> e.isClone, x |-> e.x, y |-> e.y,
         rotation |-> e.rotation, visible |-> e.visible,
         scaleX |-> e.scaleX, scaleY |-> e.scaleY, size |-> e.size,
         costumes |-> e.costumes, currentCostumeIndex |-> e.currentCostumeIndex,
         initialState |-> saveInitialState(e)]

\* setCostume(index): out-of-range indices are ignored
setCostume(e, index) ==
    IF index < 0 \/ index >= e.costumes THEN e
    ELSE [e EXCEPT !.currentCostumeIndex = index]

\* nextCostume (entities of the modelled projects carry at least one costume)
nextCostume(e) ==
    IF e.costumes = 0 THEN e
    ELSE setCostume(e, (e.currentCostumeIndex + 1) % e.costumes)

\* setSize(size): the scale factors are multiplied by size / this.size
setSize(e, size) ==
    [e EXCEPT !.scaleX = (@ * size) \div e.size,
              !.scaleY = (@ * size) \div e.size,
              !.size = size]

\* rotate(angle)
rotate(e, angle) == [e EXCEPT !.rotation = (e.rotation + angle) % 360]

\* reset(): Object.assign(this, this.initialState), then setCostume
\* a reset() that restores everything but the visibility
reset_keeps_visible(e) ==
    LET i == e.initialState
        r == [e EXCEPT !.x = i.x, !.y = i.y, !.rotation = i.rotation,
                       !.scaleX = i.scaleX, !.scaleY = i.scaleY,
                       !.currentCostumeIndex = i.currentCostumeIndex]
    IN  setCostume(r, i.currentCostumeIndex)

\* reset()
reset(e) ==
    LET i == e.initialState
        r == [e EXCEPT !.x = i.x, !.y = i.y, !.rotation = i.rotation,
                       !.visible = i.visible,
                       !.scaleX = i.scaleX, !.scaleY = i.scaleY,
                       !.currentCostumeIndex = i.currentCostumeIndex]
    IN  setCostume(r, i.currentCostumeIndex)

\* clone(): a new entity (its snapshot is that of a fresh entity) that copies
\* the template's mutable fields and shares its costume list
clone(e) ==
    [id |-> "clone", isClone |-> TRUE, x |-> e.x, y |-> e.y,
     rotation |-> e.rotation, visible |-> e.visible,
     scaleX |-> e.scaleX, scaleY |-> e.scaleY, size |-> e.size,
     costumes |-> e.costumes,
     currentCostumeIndex |-> e.currentCostumeIndex,
     initialState |-> [x |-> 0, y |-> 0, rotation |-> 0, visible |-> TRUE,
                       scaleX |-> 100, scaleY |-> 100,
                       currentCostumeIndex |-> 0]]

\* the sequence q without its element at position i
RemoveAt(q, i) == SubSeq(q, 1, i - 1) \o SubSeq(q, i + 1, Len(q))

\* indexOf(r) in q, 0 when absent
IndexOf(q, r) ==
    IF \E i \in 1..Len(q) : q[i] = r
    THEN CHOOSE i \in 1..Len(q) : q[i] = r /\ \A j \in 1..(i - 1) : q[j] # r
    ELSE 0

\* A reference to an entity object: a primary entity (in heap) or an object
\* made by clone() (in cloneHeap)
Ref(isClone, i) == [c |-> isClone, i |-> i]

\* the entity object the reference r denotes in the runtime state S
Ent(S, r) == IF r.c THEN S.cloneHeap[r.i] ELSE S.heap[r.i]

\* S with the entity object of r replaced by e
Put(S, r, e) ==
    IF r.c THEN [S EXCEPT !.cloneHeap[r.i] = e] ELSE [S EXCEPT !.heap[r.i] = e]

\* a destroy() that hides the entity and leaves this.clones alone
destroy_hides(S, r) == Put(S, r, [Ent(S, r) EXCEPT !.visible = FALSE])

\* destroy() of the entity r
destroy(S, r) ==
    LET idx == IndexOf(S.clones, r)
        S1  == IF Ent(S, r).isClone /\ idx # 0
               THEN [S EXCEPT !.clones = RemoveAt(@, idx)] ELSE S
    IN  Put(S1, r, [Ent(S, r) EXCEPT !.visible = FALSE])

----------------------------------------------------------------------------
(* TurboRuntime: events, clones and the compiled thread bodies.            *)
(* A runtime state S is a record [heap, cloneHeap, clones, executors,      *)
(* microQ, inPass, sameTick, stuck]: the fields executor steps change, the *)
(* queue of continuations waiting for a microtask, and three history       *)
(* fields.                                                                 *)

\* the clone population cap of createClone
MaxClones == 360

\* text of a parameter inside a template literal (`keyPress_${params[0]}`)
ParamText(p) == IF p.k = "num" THEN NumberToString(p.n) ELSE <<p.s>>

\* getEventType(block)
getEventType(block) ==
    CASE block.type = "when_run_button_click" -> "start"
      [] block.type = "when_some_key_pressed" -> "keyPress"
      [] block.type = "when_object_click"     -> "click"
      [] block.type = "when_message_cast"     -> "message"
      [] block.type = "when_clone_start"      -> "clone"
      [] OTHER -> None

\* the key registerEvent files a listener under
RegisterKey(eventType, params) ==
    IF eventType \in {"keyPress", "message"}
    THEN <<eventType>> \o (IF params = <<>> THEN <<"undefined">> ELSE ParamText(params[1]))
    ELSE <<eventType>>

\* registerEvent(eventType, entity, compiledFn, params)
registerEvent(el, eventType, entity, compiledFn, params) ==
    LET key == RegisterKey(eventType, params)
        old == IF key \in DOMAIN el THEN el[key] ELSE <<>>
    IN  [k \in DOMAIN el \cup {key} |->
            IF k = key THEN Append(old, [entity |-> entity, fn |-> compiledFn])
            ELSE el[k]]

\* a lookup key that drops the value
FireKey_typeOnly(eventType, value) == <<eventType>>

\* the key fireEvent(eventType, value) looks up; value is a token sequence
FireKey(eventType, value) ==
    CASE eventType = "when_some_key_pressed" -> <<"keyPress">> \o value
      [] eventType = "message"               -> <<"message">> \o value
      [] OTHER -> <<eventType>>

\* a startExecutor whose generator takes up the position at which the latest
\* executor of the same compiled function stands
startExecutor_resumed(S, entity, compiledFn, by) ==
    LET same == {j \in 1..Len(S.executors) : S.executors[j].fn = compiledFn}
        last == CHOOSE j \in same : \A q \in same : q <= j
    IN  [S EXCEPT !.executors = Append(@,
            [entity |-> entity, fn |-> compiledFn,
             pc |-> IF same = {} THEN 1 ELSE S.executors[last].pc,
             gs |-> "start", before |-> 0, castN |-> 0, waitUntil |-> 0,
             by |-> by, fresh |-> S.inPass, threw |-> FALSE, due |-> 0])]

\* startExecutor(entity, compiledFn): the generator object is created, its
\* body does not run yet.  by names the executor whose step made the call
\* (0: an event from outside a step); fresh marks a call made during a pass.
startExecutor(S, entity, compiledFn, by) ==
    [S EXCEPT !.executors = Append(@,
        [entity |-> entity, fn |-> compiledFn, pc |-> 1, gs |-> "start",
         before |-> 0, castN |-> 0, waitUntil |-> 0, by |-> by,
         fresh |-> S.inPass, threw |-> FALSE, due |-> 0])]

\* a fireEvent loop without the visibility test
RECURSIVE StartListeners_any(_, _, _, _, _)
StartListeners_any(S, listeners, k, eventType, by) ==
    IF k > Len(listeners) THEN S
    ELSE StartListeners_any(startExecutor(S, listeners[k].entity, listeners[k].fn, by),
                            listeners, k + 1, eventType, by)

\* the loop of fireEvent over the listeners of the key
RECURSIVE StartListeners(_, _, _, _, _)
StartListeners(S, listeners, k, eventType, by) ==
    IF k > Len(listeners) THEN S
    ELSE LET l == listeners[k] IN
         StartListeners(
            IF Ent(S, l.entity).visible \/ eventType = "clone"
            THEN startExecutor(S, l.entity, l.fn, by) ELSE S,
            listeners, k + 1, eventType, by)

\* fireEvent(eventType, value)
fireEvent(S, el, eventType, value, by) ==
    LET key == FireKey(eventType, value) IN
    IF key \notin DOMAIN el THEN S
    ELSE StartListeners(S, el[key], 1, eventType, by)

\* broadcast(messageId)
broadcast(S, el, messageId, by) == fireEvent(S, el, "message", <<messageId>>, by)

RECURSIVE StartCloneListeners(_, _, _, _, _, _)
StartCloneListeners(S, listeners, k, targetId, cloneRef, by) ==
    IF k > Len(listeners) THEN S
    ELSE LET l == listeners[k] IN
         StartCloneListeners(
            IF Ent(S, l.entity).id = targetId
            THEN startExecutor(S, cloneRef, l.fn, by) ELSE S,
            listeners, k + 1, targetId, cloneRef, by)

\* a createClone whose limit test is off by one
createClone_above(S, el, obj, targetId, by) ==
    IF targetId = "self" THEN S
    ELSE IF targetId \notin DOMAIN obj THEN S
    ELSE IF Len(S.clones) > MaxClones THEN S
    ELSE LET targetEntity == obj[targetId]
             cloneRef == Ref(TRUE, Len(S.cloneHeap) + 1)
             S1 == [S EXCEPT !.cloneHeap = Append(@, clone(Ent(S, targetEntity))),
                             !.clones = Append(@, cloneRef)]
         IN  IF <<"clone">> \in DOMAIN el
             THEN StartCloneListeners(S1, el[<<"clone">>], 1, targetId, cloneRef, by)
             ELSE S1

\* a createClone whose clone is the template object itself
createClone_alias(S, el, obj, targetId, by) ==
    IF targetId = "self" THEN S
    ELSE IF targetId \notin DOMAIN obj THEN S
    ELSE IF Len(S.clones) >= MaxClones THEN S
    ELSE LET targetEntity == obj[targetId]
             S1 == [S EXCEPT !.clones = Append(@, targetEntity)]
         IN  IF <<"clone">> \in DOMAIN el
             THEN StartCloneListeners(S1, el[<<"clone">>], 1, targetId,
                                      targetEntity, by)
             ELSE S1

\* createClone(targetId)
createClone(S, el, obj, targetId, by) ==
    IF targetId = "self" THEN S
    ELSE IF targetId \notin DOMAIN obj THEN S
    ELSE IF Len(S.clones) >= MaxClones THEN S
    ELSE LET targetEntity == obj[targetId]
             cloneRef == Ref(TRUE, Len(S.cloneHeap) + 1)
             S1 == [S EXCEPT !.cloneHeap = Append(@, clone(Ent(S, targetEntity))),
                             !.clones = Append(@, cloneRef)]
         IN  IF <<"clone">> \in DOMAIN el
             THEN StartCloneListeners(S1, el[<<"clone">>], 1, targetId, cloneRef, by)
             ELSE S1

\* createClone(targetId) of the bundled runtime: the clone is made and
\* pushed, the listeners of 'clone' are not looked at
BundleCreateClone(S, obj, targetId) ==
    IF targetId \notin DOMAIN obj \/ Len(S.clones) >= MaxClones THEN S
    ELSE [S EXCEPT !.cloneHeap = Append(@, clone(Ent(S, obj[targetId]))),
                   !.clones = Append(@, Ref(TRUE, Len(S.cloneHeap) + 1))]

\* the executors started, directly or transitively, by the calls that pushed
\* the executors of the index set from
RECURSIVE StartedBy(_, _)
StartedBy(ex, from) ==
    LET more == {j \in 1..Len(ex) : ex[j].by \in from} \ from IN
    IF more = {} THEN from ELSE StartedBy(ex, from \cup more)

\* the executors started by the broadcast executor i is waiting for
OwnSpawn(ex, i) ==
    StartedBy(ex, (ex[i].before + 1)..(ex[i].before + ex[i].castN))

\* The body of a compiled thread, run from executor i's position up to its
\* next yield, its return, or the await that follows a finished
\* broadcastAndWait (compileDefaultBlock gives the statement of each block).
RECURSIVE RunOps(_, _, _, _, _)
RunOps(S, el, obj, f, i) ==
    LET e    == S.executors[i]
        body == f[e.fn]
        ent  == e.entity
        me   == Ent(S, ent)
    IN
    IF e.pc > Len(body)
    THEN [S EXCEPT !.executors[i].gs = "done"]
    ELSE
    LET b    == body[e.pc]
        next == [S EXCEPT !.executors[i].pc = e.pc + 1]
        arg  == IF b.params = <<>> THEN Num(0) ELSE b.params[1]
    IN
    CASE b.type = "wait_second" ->
            \* yield { type: 'wait', duration: p * 1000 }
            [next EXCEPT !.executors[i].gs = "yield",
                         !.executors[i].due = S.now + arg.n * 1000]
      [] b.type = "when_some_key_pressed" ->
            \* if (runtime.pressedKey !== p) return;  nothing ever assigns
            \* runtime.pressedKey, so the test compares undefined with p
            [S EXCEPT !.executors[i].gs = "done"]
      [] b.type = "add_value_to_list" ->
            \* lists['id'].push(p): the modelled documents declare no list,
            \* so lists['id'] is undefined and the statement raises a
            \* TypeError, which ends the generator
            [S EXCEPT !.executors[i].gs = "done", !.executors[i].threw = TRUE]
      [] b.type = "stop_object" ->
            [S EXCEPT !.executors[i].gs = "done"]
      [] b.type = "set_variable" ->
            \* vars['id'] = p
            RunOps([next EXCEPT !.variables =
                       [id \in DOMAIN @ \cup {b.params[2].s} |->
                           IF id = b.params[2].s THEN arg.n ELSE @[id]]],
                   el, obj, f, i)
      [] b.type = "locate_x" ->
            RunOps(Put(next, ent, [me EXCEPT !.x = arg.n]), el, obj, f, i)
      [] b.type = "locate_y" ->
            RunOps(Put(next, ent, [me EXCEPT !.y = arg.n]), el, obj, f, i)
      [] b.type = "rotate_by_angle" ->
            RunOps(Put(next, ent, rotate(me, arg.n)), el, obj, f, i)
      [] b.type = "set_scale_size" ->
            RunOps(Put(next, ent, setSize(me, arg.n)), el, obj, f, i)
      [] b.type = "show" ->
            RunOps(Put(next, ent, [me EXCEPT !.visible = TRUE]), el, obj, f, i)
      [] b.type = "hide" ->
            RunOps(Put(next, ent, [me EXCEPT !.visible = FALSE]), el, obj, f, i)
      [] b.type = "change_to_next_shape" ->
            RunOps(Put(next, ent, nextCostume(me)), el, obj, f, i)
      [] b.type = "message_cast" ->
            RunOps(broadcast(next, el, arg.s, i), el, obj, f, i)
      [] b.type = "message_cast_wait" ->
            \* yield* runtime.broadcastAndWait(id): the inner generator runs
            \* up to its first yield, or returns at once
            LET executorsBefore == Len(S.executors)
                S1 == broadcast(S, el, arg.s, i)
            IN  IF Len(S1.executors) > executorsBefore
                THEN [S1 EXCEPT !.executors[i].gs = "inner",
                                !.executors[i].before = executorsBefore,
                                !.executors[i].castN =
                                    Len(S1.executors) - executorsBefore]
                ELSE [S1 EXCEPT !.executors[i].gs = "micro",
                                !.executors[i].pc = e.pc + 1,
                                !.microQ = Append(@, i)]
      [] b.type = "create_clone" ->
            RunOps(createClone(next, el, obj, arg.s, i), el, obj, f, i)
      [] b.type = "delete_clone" ->
            \* if (entity.isClone) { entity.destroy(); return; }
            IF me.isClone
            THEN [destroy(S, ent) EXCEPT !.executors[i].gs = "done"]
            ELSE RunOps(next, el, obj, f, i)
      [] OTHER ->
            \* /* Unknown block */ and the hat blocks: a comment
            RunOps(next, el, obj, f, i)

\* generator.next() on executor i.  The body runs synchronously to its next
\* suspension; a generator waiting inside broadcastAndWait re-tests
\* `this.executors.length > executorsBefore`.
GeneratorNext(S, el, obj, f, i) ==
    LET e == S.executors[i] IN
    CASE e.gs = "done"  -> S
      [] e.gs = "inner" ->
            IF Len(S.executors) > e.before
            THEN [S EXCEPT !.stuck = @ \/
                    (\A j \in OwnSpawn(S.executors, i) : S.executors[j].gs = "done")]
            ELSE [S EXCEPT !.executors[i].gs = "micro",
                           !.executors[i].pc = e.pc + 1,
                           !.executors[i].castN = 0,
                           !.microQ = Append(@, i)]
      [] OTHER -> RunOps(S, el, obj, f, i)

\* What the scheduler reads from the value next() returns.  The compiled
\* function is an async generator function, so the value is a Promise:
\* its `done` and `value` properties are undefined.
NextResult == [done |-> FALSE, type |-> None, duration |-> 0]

\* Whether the call generator.next() throws, which the scheduler's catch
\* would turn into a removal: an error raised in the body of an async
\* generator rejects the Promise that next() returned, it is not thrown.
NextThrows == FALSE

\* the sequence q without the elements whose positions are in drop
RECURSIVE Splice(_, _, _)
Splice(q, drop, k) ==
    IF k > Len(q) THEN <<>>
    ELSE (IF k \in drop THEN <<>> ELSE <<q[k]>>) \o Splice(q, drop, k + 1)

\* the for loop of updateExecutors(now), from position i on; the loop bound
\* this.executors.length is read again at every iteration
RECURSIVE Pass(_, _, _, _, _, _, _)
Pass(S, el, obj, f, now, i, completed) ==
    IF i > Len(S.executors) THEN [S |-> S, completed |-> completed]
    ELSE
    LET executor == S.executors[i] IN
    IF executor.waitUntil > now
    THEN Pass(S, el, obj, f, now, i + 1, completed)
    ELSE LET S1 == GeneratorNext(
                     [S EXCEPT !.sameTick = @ \/ executor.fresh,
                               !.earlyWake = @ \/ executor.due > now,
                               !.stepped = Append(@, i),
                               !.late = @ \/ (/\ executor.entity.c
                                              /\ executor.gs # "done"
                                              /\ IndexOf(S.clones, executor.entity) = 0),
                               !.executors[i].due = 0], el, obj, f, i)
             result == NextResult
         IN  IF NextThrows \/ result.done
             THEN Pass(S1, el, obj, f, now, i + 1, completed \cup {i})
             ELSE IF result.type = "wait"
             THEN Pass([S1 EXCEPT !.executors[i].waitUntil = now + result.duration],
                       el, obj, f, now, i + 1, completed)
             ELSE Pass(S1, el, obj, f, now, i + 1, completed)

\* The continuations queued for a microtask: a thread whose broadcastAndWait
\* returned goes on after the await of yield*, once the pass is over.
RECURSIVE Drain(_, _, _, _)
Drain(S, el, obj, f) ==
    IF S.microQ = <<>> THEN S
    ELSE LET i  == Head(S.microQ)
             S1 == [S EXCEPT !.microQ = Tail(@), !.executors[i].gs = "yield"]
         IN  Drain(RunOps(S1, el, obj, f, i), el, obj, f)

\* the mutant whose loop starts at the second executor
updateExecutors_skipsFirst(S, pend, el, obj, f, now) ==
    LET p  == Pass([S EXCEPT !.inPass = TRUE, !.sameTick = FALSE, !.stuck = FALSE,
                             !.earlyWake = FALSE, !.now = now,
                             !.stepped = <<>>, !.late = FALSE],
                   el, obj, f, now, 2, {})
        S1 == [p.S EXCEPT !.executors = Splice(@, p.completed, 1) \o pend,
                          !.inPass = FALSE]
        S2 == Drain(S1, el, obj, f)
    IN  [S2 EXCEPT !.executors =
            [k \in 1..Len(@) |-> [@[k] EXCEPT !.fresh = FALSE]]]

\* updateExecutors(now), followed by the microtasks it leaves behind
updateExecutors(S, pend, el, obj, f, now) ==
    LET p  == Pass([S EXCEPT !.inPass = TRUE, !.sameTick = FALSE, !.stuck = FALSE,
                             !.earlyWake = FALSE, !.now = now,
                             !.stepped = <<>>, !.late = FALSE],
                   el, obj, f, now, 1, {})
        S1 == [p.S EXCEPT !.executors = Splice(@, p.completed, 1) \o pend,
                          !.inPass = FALSE]
        S2 == Drain(S1, el, obj, f)
    IN  [S2 EXCEPT !.executors =
            [k \in 1..Len(@) |-> [@[k] EXCEPT !.fresh = FALSE]]]

----------------------------------------------------------------------------
(* TurboRuntime: the operations *)

\* bounds of the model: executors alive, clone objects made since the last stop
MaxExecutors == 5
MaxCloneObjects == 2

\* values of performance.now() handed to a frame
Times == {16, 1016}
\* key codes of keydown events
KeyCodes == {32, 65}
\* targets of createClone calls
CloneTargets == {"obj1", "obj2", "self"}

\* the runtime state the variables hold
Now == [heap |-> heap, cloneHeap |-> cloneHeap, clones |-> clones,
        executors |-> executors, microQ |-> <<>>, inPass |-> FALSE,
        sameTick |-> FALSE, stuck |-> FALSE, earlyWake |-> FALSE, now |-> clock,
        variables |-> variables, stepped |-> <<>>, late |-> FALSE]

Hist0 == [fired |-> FALSE, firedStart |-> <<>>, visibleAt |-> <<>>,
          sameTick |-> FALSE, stuck |-> FALSE, earlyWake |-> FALSE,
          dirty |-> FALSE,
          nClones |-> 0, nExecutors |-> 0, target |-> "", keyCode |-> 0,
          variablesAt |-> <<>>, stepped |-> <<>>, late |-> FALSE,
          heapAt |-> <<>>]

\* the script loop of loadObject: every thread with a known hat block is
\* compiled without its hat and registered; st is [cache, fns, el]
RECURSIVE LoadScripts(_, _, _, _)
LoadScripts(st, scripts, k, entity) ==
    IF k > Len(scripts) THEN st
    ELSE
    LET thread == scripts[k] IN
    IF thread = <<>> THEN LoadScripts(st, scripts, k + 1, entity)
    ELSE
    LET firstBlock == thread[1]
        eventType  == getEventType(firstBlock)
    IN  IF eventType = None THEN LoadScripts(st, scripts, k + 1, entity)
        ELSE LET c == compileThread(Tail(thread), st.cache, st.fns) IN
             LoadScripts(
                [cache |-> c.cache, fns |-> c.fns,
                 el |-> registerEvent(st.el, eventType, entity, c.fn,
                                      firstBlock.params)],
                scripts, k + 1, entity)

\* loadObject(objData) on st = [heap, entities, objects, cache, fns, el]
loadObject(st, objData) ==
    LET entity == setCostume(
                    [NewEntity(objData) EXCEPT !.costumes = objData.pictures], 0)
        ref    == Ref(FALSE, Len(st.heap) + 1)
        ld     == LoadScripts([cache |-> st.cache, fns |-> st.fns, el |-> st.el],
                              objData.script, 1, ref)
    IN  [heap     |-> Append(st.heap, entity),
         entities |-> Append(st.entities, ref),
         objects  |-> [id \in DOMAIN st.objects \cup {objData.id} |->
                          IF id = objData.id THEN ref ELSE st.objects[id]],
         cache    |-> ld.cache,
         fns      |-> ld.fns,
         el       |-> ld.el]

RECURSIVE LoadObjects(_, _, _)
LoadObjects(st, objs, k) ==
    IF k > Len(objs) THEN st
    ELSE LoadObjects(loadObject(st, objs[k]), objs, k + 1)

\* the loop of loadProject over projectData.variables
Defaults(p) ==
    LET vs == VariablesOf(p) IN
    [id \in {vs[k].id : k \in 1..Len(vs)} |->
        vs[CHOOSE k \in 1..Len(vs) :
              vs[k].id = id /\ \A j \in (k + 1)..Len(vs) : vs[j].id # id].value]

\* loadProject(projectData): the objects in order, then
\* this.eventListeners.set(`message_${msg.id}`, []) for every declared
\* message.  The document is loaded once.
LoadProject ==
    /\ ~loaded
    /\ LET st   == LoadObjects([heap |-> heap, entities |-> entities,
                                objects |-> objects, cache |-> cache,
                                fns |-> fns, el |-> eventListeners],
                               ObjectsOf(project), 1)
           keys == {<<"message", MessagesOf(project)[k]>> :
                        k \in 1..Len(MessagesOf(project))}
       IN  /\ heap' = st.heap
           /\ entities' = st.entities
           /\ objects' = st.objects
           /\ cache' = st.cache
           /\ fns' = st.fns
           /\ eventListeners' = [k \in DOMAIN st.el \cup keys |->
                                    IF k \in keys THEN <<>> ELSE st.el[k]]
    /\ variables' = Defaults(project)
    /\ loaded' = TRUE
    /\ lastOp' = "loadProject"
    /\ hist' = Hist0
    /\ UNCHANGED <<project, running, paused, rafId, frames, cloneHeap, clones, executors,
                   pendingExecutors>>
    /\ UNCHANGED clock
    /\ UNCHANGED <<turboVars, labVars>>

\* the executors after the n-th, as (entity, function) pairs
Pairs(ex, n) ==
    [k \in 1..(Len(ex) - n) |-> [entity |-> ex[n + k].entity, fn |-> ex[n + k].fn]]

\* a start() without the early return of a running runtime
Start_again ==
    /\ lastOp' = "start"
    /\ \E now \in {t \in Times : t >= clock} :
            LET fired == fireEvent(Now, eventListeners, "start", <<>>, 0)
                \* mainLoop(): running and not paused
                S == updateExecutors(fired, pendingExecutors, eventListeners,
                                     objects, fns, now)
            IN  /\ running' = TRUE
                /\ paused' = FALSE
                /\ rafId' = TRUE
                /\ frames' = frames + 1
                /\ heap' = S.heap
                /\ cloneHeap' = S.cloneHeap
                /\ clones' = S.clones
                /\ executors' = S.executors
                /\ clock' = now
                /\ variables' = S.variables
                /\ hist' = [Hist0 EXCEPT !.fired = TRUE,
                                         !.earlyWake = S.earlyWake,
                                         !.firedStart = Pairs(fired.executors, Len(executors)),
                                         !.visibleAt =
                                            [k \in 1..Len(heap) |-> heap[k].visible],
                                         !.nExecutors = Len(executors),
                                         !.variablesAt = fired.variables,
                                         !.heapAt = fired.heap,
                                         !.sameTick = S.sameTick,
                                         !.stepped = S.stepped,
                                         !.late = S.late,
                                         !.stuck = S.stuck]
    /\ pendingExecutors' = <<>>
    /\ UNCHANGED <<project, loaded, entities, objects, eventListeners, cache, fns>>
    /\ UNCHANGED <<turboVars, labVars>>

\* start()
Start ==
    /\ lastOp' = "start"
    /\ IF running
       THEN /\ hist' = Hist0
            /\ UNCHANGED <<running, paused, rafId, frames, heap, cloneHeap, clones, executors,
                           clock, variables>>
       ELSE \E now \in {t \in Times : t >= clock} :
            LET fired == fireEvent(Now, eventListeners, "start", <<>>, 0)
                \* mainLoop(): running and not paused
                S == updateExecutors(fired, pendingExecutors, eventListeners,
                                     objects, fns, now)
            IN  /\ running' = TRUE
                /\ paused' = FALSE
                /\ rafId' = TRUE
                /\ frames' = frames + 1
                /\ heap' = S.heap
                /\ cloneHeap' = S.cloneHeap
                /\ clones' = S.clones
                /\ executors' = S.executors
                /\ clock' = now
                /\ variables' = S.variables
                /\ hist' = [Hist0 EXCEPT !.fired = TRUE,
                                         !.earlyWake = S.earlyWake,
                                         !.firedStart = Pairs(fired.executors, Len(executors)),
                                         !.visibleAt =
                                            [k \in 1..Len(heap) |-> heap[k].visible],
                                         !.nExecutors = Len(executors),
                                         !.variablesAt = fired.variables,
                                         !.heapAt = fired.heap,
                                         !.sameTick = S.sameTick,
                                         !.stepped = S.stepped,
                                         !.late = S.late,
                                         !.stuck = S.stuck]
    /\ pendingExecutors' = <<>>
    /\ UNCHANGED <<project, loaded, entities, objects, eventListeners, cache, fns>>
    /\ UNCHANGED <<turboVars, labVars>>

\* The loop of stop() over this.clones, `for (const clone of this.clones)
\* clone.destroy()`: destroy() splices the clone out of the array that is
\* being iterated while the iterator's position moves on by one, so the loop
\* reaches the clones at the odd positions of the array it started with.
DestroyLoop(S) ==
    LET visited == {S.clones[k] : k \in {j \in 1..Len(S.clones) : j % 2 = 1}} IN
    [S EXCEPT !.clones = SelectSeq(@, LAMBDA r : r \notin visited),
              !.cloneHeap = [i \in 1..Len(@) |->
                                IF Ref(TRUE, i) \in visited
                                THEN [@[i] EXCEPT !.visible = FALSE]
                                ELSE @[i]]]

\* a stop() that relies on the destroy loop alone to empty this.clones
stop_keeps_clones(S) ==
    LET S1 == DestroyLoop([S EXCEPT !.executors = <<>>])
    IN  [S1 EXCEPT !.heap = [k \in 1..Len(@) |-> reset(@[k])]]

\* stop() on the runtime state S
stop(S) ==
    LET S1 == DestroyLoop([S EXCEPT !.executors = <<>>])
        S2 == [S1 EXCEPT !.clones = <<>>]
    IN  [S2 EXCEPT !.heap = [k \in 1..Len(@) |-> reset(@[k])]]

\* whether a primary entity differs from its snapshot
Differs(e) == saveInitialState(e) # e.initialState

\* stop(); clone objects nothing refers to any more are dropped
Stop ==
    /\ LET S == stop(Now) IN
       /\ heap' = S.heap
       /\ clones' = S.clones
       /\ executors' = S.executors
       /\ cloneHeap' = IF S.clones = <<>> THEN <<>> ELSE S.cloneHeap
    /\ running' = FALSE
    /\ paused' = FALSE
    /\ rafId' = FALSE
    /\ frames' = IF rafId THEN frames - 1 ELSE frames
    /\ pendingExecutors' = <<>>
    /\ lastOp' = "stop"
    /\ hist' = [Hist0 EXCEPT !.dirty = \E k \in 1..Len(heap) : Differs(heap[k]),
                             !.nClones = Len(clones),
                             !.nExecutors = Len(executors)]
    /\ UNCHANGED <<project, loaded, entities, objects, eventListeners, cache, fns>>
    /\ UNCHANGED <<clock, variables>>
    /\ UNCHANGED <<turboVars, labVars>>

\* togglePause()
TogglePause ==
    /\ paused' = ~paused
    /\ lastOp' = "togglePause"
    /\ hist' = Hist0
    /\ UNCHANGED <<project, running, rafId, frames, loaded, heap, cloneHeap, entities,
                   objects, clones, executors, pendingExecutors, eventListeners,
                   cache, fns>>
    /\ UNCHANGED <<clock, variables>>
    /\ UNCHANGED <<turboVars, labVars>>

\* a mainLoop() that runs updateExecutors whether paused or not
Tick_ignoresPause ==
    /\ rafId
    /\ lastOp' = "tick"
    /\ IF ~running
       THEN /\ rafId' = FALSE
            /\ frames' = frames - 1
            /\ hist' = Hist0
            /\ UNCHANGED <<heap, cloneHeap, clones, executors, pendingExecutors,
                           clock, variables>>
       ELSE \E now \in {t \in Times : t >= clock} :
            LET S == updateExecutors(Now, pendingExecutors, eventListeners,
                                     objects, fns, now)
            IN  /\ heap' = S.heap
                /\ cloneHeap' = S.cloneHeap
                /\ clones' = S.clones
                /\ executors' = S.executors
                /\ pendingExecutors' = <<>>
                /\ rafId' = TRUE
                /\ frames' = frames
                /\ clock' = now
                /\ variables' = S.variables
                /\ hist' = [Hist0 EXCEPT !.sameTick = S.sameTick,
                                         !.earlyWake = S.earlyWake,
                                         !.stuck = S.stuck,
                                         !.stepped = S.stepped,
                                         !.late = S.late,
                                         !.nExecutors = Len(executors)]
    /\ UNCHANGED <<project, running, paused, loaded, entities, objects,
                   eventListeners, cache, fns>>
    /\ UNCHANGED <<turboVars, labVars>>

\* the frame callback: mainLoop()
Tick ==
    /\ rafId
    /\ lastOp' = "tick"
    /\ IF ~running
       THEN /\ rafId' = FALSE
            /\ frames' = frames - 1
            /\ hist' = Hist0
            /\ UNCHANGED <<heap, cloneHeap, clones, executors, pendingExecutors,
                           clock, variables>>
       ELSE IF paused
       THEN /\ hist' = Hist0
            /\ UNCHANGED <<rafId, frames, heap, cloneHeap, clones, executors, pendingExecutors,
                           clock, variables>>
       ELSE \E now \in {t \in Times : t >= clock} :
            LET S == updateExecutors(Now, pendingExecutors, eventListeners,
                                     objects, fns, now)
            IN  /\ heap' = S.heap
                /\ cloneHeap' = S.cloneHeap
                /\ clones' = S.clones
                /\ executors' = S.executors
                /\ pendingExecutors' = <<>>
                /\ rafId' = TRUE
                /\ frames' = frames
                /\ clock' = now
                /\ variables' = S.variables
                /\ hist' = [Hist0 EXCEPT !.sameTick = S.sameTick,
                                         !.earlyWake = S.earlyWake,
                                         !.stuck = S.stuck,
                                         !.stepped = S.stepped,
                                         !.late = S.late,
                                         !.nExecutors = Len(executors)]
    /\ UNCHANGED <<project, running, paused, loaded, entities, objects,
                   eventListeners, cache, fns>>
    /\ UNCHANGED <<turboVars, labVars>>

\* checkEntityClick(e) for a click at a point that the primary entity k
\* alone contains: the entity is passed over when it is hidden
checkEntityClick(S, el, k) ==
    IF ~Ent(S, entities[k]).visible THEN S
    ELSE fireEvent(S, el, "when_object_click", <<Ent(S, entities[k]).id>>, 0)

\* the mousedown listener of the canvas
MouseDown(k) ==
    /\ k \in 1..Len(entities)
    /\ lastOp' = "click"
    /\ hist' = [Hist0 EXCEPT !.fired = running /\ Ent(Now, entities[k]).visible,
                             !.target = Ent(Now, entities[k]).id,
                             !.nExecutors = Len(executors)]
    /\ IF running
       THEN executors' = checkEntityClick(
                            fireEvent(Now, eventListeners, "mouse_clicked", <<>>, 0),
                            eventListeners, k).executors
       ELSE UNCHANGED executors
    /\ UNCHANGED <<project, running, paused, rafId, frames, loaded, heap, cloneHeap,
                   entities, objects, clones, pendingExecutors, eventListeners,
                   cache, fns>>
    /\ UNCHANGED <<clock, variables>>
    /\ UNCHANGED <<turboVars, labVars>>

\* the keydown listener of initInput
KeyDown(keyCode) ==
    /\ lastOp' = "keydown"
    /\ hist' = [Hist0 EXCEPT !.fired = running, !.keyCode = keyCode,
                             !.nExecutors = Len(executors)]
    /\ IF running
       THEN executors' = fireEvent(Now, eventListeners, "when_some_key_pressed",
                                   NumberToString(keyCode), 0).executors
       ELSE UNCHANGED executors
    /\ UNCHANGED <<project, running, paused, rafId, frames, loaded, heap, cloneHeap,
                   entities, objects, clones, pendingExecutors, eventListeners,
                   cache, fns>>
    /\ UNCHANGED <<clock, variables>>
    /\ UNCHANGED <<turboVars, labVars>>

\* a call of createClone(targetId)
CreateCloneCall(targetId) ==
    /\ LET S == createClone(Now, eventListeners, objects, targetId, 0) IN
       /\ cloneHeap' = S.cloneHeap
       /\ clones' = S.clones
       /\ executors' = S.executors
    /\ lastOp' = "createClone"
    /\ hist' = [Hist0 EXCEPT !.nClones = Len(clones),
                             !.nExecutors = Len(executors),
                             !.target = targetId]
    /\ UNCHANGED <<project, running, paused, rafId, frames, loaded, heap, entities,
                   objects, pendingExecutors, eventListeners, cache, fns>>
    /\ UNCHANGED <<clock, variables>>
    /\ UNCHANGED <<turboVars, labVars>>

\* a call of createClone(targetId) on the runtime of the bundled build
BundleCreateCloneCall(targetId) ==
    /\ LET S == BundleCreateClone(Now, objects, targetId) IN
       /\ cloneHeap' = S.cloneHeap
       /\ clones' = S.clones
    /\ lastOp' = "createClone"
    /\ hist' = [Hist0 EXCEPT !.nClones = Len(clones),
                             !.nExecutors = Len(executors),
                             !.target = targetId]
    /\ UNCHANGED <<project, running, paused, rafId, frames, loaded, heap, entities,
                   objects, executors, pendingExecutors, eventListeners, cache,
                   fns>>
    /\ UNCHANGED <<clock, variables>>
    /\ UNCHANGED <<turboVars, labVars>>

\* the model stays within its bounds
Bounded ==
    /\ Len(executors') <= MaxExecutors
    /\ Len(cloneHeap') <= MaxCloneObjects

\* bounds of the model of key and clone events
MaxEventExecutors == 4
MaxEventClones == 1

EventsBounded ==
    /\ Len(executors') <= MaxEventExecutors
    /\ Len(cloneHeap') <= MaxEventClones

EmptyRuntime ==
    /\ running = FALSE
    /\ paused = FALSE
    /\ rafId = FALSE
    /\ frames = 0
    /\ loaded = FALSE
    /\ heap = <<>>
    /\ cloneHeap = <<>>
    /\ entities = <<>>
    /\ objects = <<>>
    /\ clones = <<>>
    /\ executors = <<>>
    /\ pendingExecutors = <<>>
    /\ eventListeners = <<>>
    /\ cache = <<>>
    /\ fns = <<>>
    /\ lastOp = "new"
    /\ hist = Hist0
    /\ clock = 0
    /\ variables = <<>>


----------------------------------------------------------------------------
(* The injected JIT: TurboCompiler and EntryTurbo of entry-turbo.js.  The
   host (Entry) owns the entities, the executors and the event dispatch; of
   the host the model keeps the executors that carry a generator made by the
   hooked Executor constructor. *)

MaxInjects == 2
MaxArtifacts == 4
MaxTurboExecutors == 3

\* the block trees the host hands to the hooked Executor constructor
TurboThreads ==
    << <<Blk("when_run_button_click", <<>>),
         Blk("message_cast_wait", <<Str("m1")>>),
         Blk("move_x", <<Num(10)>>)>>,
       <<Blk("when_message_cast", <<Str("m1")>>),
         Blk("wait_second", <<Num(1)>>),
         Blk("move_x", <<Num(10)>>)>>,
       <<Blk("when_some_key_pressed", <<Num(32)>>),
         Blk("stop_repeat", <<>>)>>,
       <<Blk("when_some_key_pressed", <<Num(32)>>),
         BlkS("repeat_basic", <<Num(2)>>,
              << <<Blk("move_x", <<Num(10)>>), Blk("stop_repeat", <<>>)>> >>)>>,
       <<Blk("when_some_key_pressed", <<Num(65)>>),
         Blk("ask_and_wait", <<Str("q")>>),
         Blk("move_x", <<Num(10)>>)>> >>

Owners == {"obj1", "obj2"}

TreeOwners == (1..Len(TurboThreads)) \X Owners

\* the host's scripts: those it starts on toggleRun and on raiseMessage
HostStart == <<[t |-> 1, owner |-> "obj1"]>>
HostHandlers(messageId) ==
    IF messageId = "m1" THEN <<[t |-> 2, owner |-> "obj2"]>> ELSE <<>>

\* TurboCompiler.compileThread(blocks, objectId) on the cache c when n
\* functions exist: the cached function, or a new one that is cached, or,
\* when the compilation throws, a new fallback thread that is not cached
TurboCompiler_compileThread(blocks, objectId, c, n) ==
    LET cacheKey == Stringify(blocks) \o <<objectId>> IN
    IF cacheKey \in DOMAIN c
    THEN [fn |-> c[cacheKey], kind |-> "compiled", cache |-> c, made |-> n,
          compiled |-> FALSE]
    ELSE IF SyntaxOK(blocks)
    THEN [fn |-> n + 1, kind |-> "compiled", cache |-> c @@ (cacheKey :> n + 1),
          made |-> n + 1, compiled |-> TRUE]
    ELSE [fn |-> n + 1, kind |-> "fallback", cache |-> c, made |-> n + 1,
          compiled |-> TRUE]

\* TurboCompiler.clearCache()
TurboCompiler_clearCache == <<>>

Op(o, a) == [op |-> o, arg |-> a]

RECURSIVE RepeatOps(_, _)
RepeatOps(ops, n) ==
    IF n <= 0 THEN <<>> ELSE ops \o <<Op("tick", "")>> \o RepeatOps(ops, n - 1)

\* the position of the first break of a loop body, 0 when it has none
FirstBreak(ops) ==
    IF \E q \in 1..Len(ops) : ops[q].op = "break"
    THEN CHOOSE q \in 1..Len(ops) :
            ops[q].op = "break" /\ \A r \in 1..(q - 1) : ops[r].op # "break"
    ELSE 0

\* What the text generated by blockCompilers does when run, as the sequence
\* of its suspensions and runtime calls; calls on the host's entity and the
\* comments of the hat blocks leave nothing.  A counted loop is unrolled.
RECURSIVE TurboOps(_), BlockOps(_)
BlockOps(b) ==
    CASE b.type = "wait_second" -> <<Op("wait", "")>>
      [] b.type = "repeat_basic" ->
            LET body == IF b.statements = <<>> THEN <<>>
                        ELSE TurboOps(b.statements[1])
                q == FirstBreak(body)
            IN  IF b.params[1].n <= 0 THEN <<>>
                ELSE IF q > 0 THEN SubSeq(body, 1, q - 1)
                ELSE RepeatOps(body, b.params[1].n)
      [] b.type = "stop_repeat" -> <<Op("break", "")>>
      [] b.type = "stop_object" -> <<Op("return", "")>>
      [] b.type = "message_cast" -> <<Op("cast", b.params[1].s)>>
      [] b.type = "message_cast_wait" -> <<Op("castwait", b.params[1].s)>>
      [] b.type = "ask_and_wait" -> <<Op("ask", b.params[1].s)>>
      [] OTHER -> <<>>

TurboOps(bs) ==
    IF bs = <<>> THEN <<>> ELSE BlockOps(Head(bs)) \o TurboOps(Tail(bs))

\* createFallbackThread(blocks): executeEntryBlock skips every block
createFallbackThread(blocks) == <<>>

TLast0 == [t |-> 0, owner |-> "", fn |-> 0, kind |-> "", prev |-> 0]

\* the state the operations of the injected JIT work on
TurboNow ==
    [execs |-> codeExecutors, cache |-> tcache, made |-> made, last |-> TLast0,
     seen |-> seen, compiles |-> compiles, microQ |-> <<>>, early |-> FALSE,
     answered |-> answered, askEarly |-> FALSE, order |-> <<>>]

\* one call of compileThread for the tree t and the owner
Compile1(X, t, owner) ==
    LET r == TurboCompiler_compileThread(TurboThreads[t], owner, X.cache, X.made) IN
    [X EXCEPT !.cache = r.cache,
              !.made = r.made,
              !.last = [t |-> t, owner |-> owner, fn |-> r.fn, kind |-> r.kind,
                        prev |-> X.seen[<<t, owner>>]],
              !.seen[<<t, owner>>] = r.fn,
              !.compiles[<<t, owner>>] = @ + (IF r.compiled THEN 1 ELSE 0)]

\* every wrapper around Entry.Executor compiles the thread and replaces the
\* executor's generator
RECURSIVE CompileLayers(_, _, _, _)
CompileLayers(X, t, owner, k) ==
    IF k = 0 THEN X ELSE CompileLayers(Compile1(X, t, owner), t, owner, k - 1)

\* new Entry.Executor(block, entity, code) while the JIT is active
NewExecutor(X, t, owner, by) ==
    LET X1 == CompileLayers(X, t, owner, hooks) IN
    [X1 EXCEPT !.execs = Append(@,
        [t |-> t, owner |-> owner, fn |-> X1.last.fn, kind |-> X1.last.kind,
         ops |-> IF X1.last.kind = "compiled" THEN TurboOps(TurboThreads[t])
                 ELSE createFallbackThread(TurboThreads[t]),
         pc |-> 1, gs |-> "start", before |-> 0, castN |-> 0, by |-> by])]

RECURSIVE NewExecutors(_, _, _, _)
NewExecutors(X, scripts, k, by) ==
    IF k > Len(scripts) THEN X
    ELSE NewExecutors(NewExecutor(X, scripts[k].t, scripts[k].owner, by),
                      scripts, k + 1, by)

\* runtime.broadcast(messageId): Entry.engine.raiseMessage(messageId)
TurboRuntime_broadcast(X, messageId, by) ==
    NewExecutors(X, HostHandlers(messageId), 1, by)

\* hasActiveMessageHandlers(messageId)
hasActiveMessageHandlers(messageId) == FALSE

\* the body of a turbo thread, from executor i's position to its next yield
RECURSIVE TurboRun(_, _)
TurboRun(X, i) ==
    LET e == X.execs[i] IN
    IF e.pc > Len(e.ops) THEN [X EXCEPT !.execs[i].gs = "done"]
    ELSE
    LET o    == e.ops[e.pc]
        next == [X EXCEPT !.execs[i].pc = e.pc + 1]
    IN
    CASE o.op \in {"wait", "tick"} -> [next EXCEPT !.execs[i].gs = "yield"]
      [] o.op = "cast" -> TurboRun(TurboRuntime_broadcast(next, o.arg, i), i)
      [] o.op = "castwait" ->
            \* *broadcastWait: broadcast, then yield { type: 'tick' }
            LET X1 == TurboRuntime_broadcast(next, o.arg, i) IN
            [X1 EXCEPT !.execs[i].gs = "bw",
                       !.execs[i].before = Len(X.execs),
                       !.execs[i].castN = Len(X1.execs) - Len(X.execs)]
      [] o.op = "ask" ->
            \* *askAndWait: the input field is shown, yield { type: 'waitInput' }
            [next EXCEPT !.execs[i].gs = "ask", !.answered = FALSE]
      [] OTHER -> [X EXCEPT !.execs[i].gs = "done"]

\* gen.next() of _runTurboExecutor on executor i; inside broadcastWait the
\* loop `while (this.hasActiveMessageHandlers(messageId))` is tested
TurboNext(X, i) ==
    LET e == X.execs[i] IN
    CASE e.gs = "done" -> X
      [] e.gs = "bw" ->
            IF hasActiveMessageHandlers(e.ops[e.pc - 1].arg) THEN X
            ELSE [X EXCEPT !.execs[i].gs = "micro",
                           !.microQ = Append(@, i),
                           !.early = @ \/ \E j \in OwnSpawn(X.execs, i) :
                                             X.execs[j].gs # "done"]
      [] e.gs = "ask" ->
            \* askAndWait goes on after its yield and returns
            [X EXCEPT !.execs[i].gs = "micro",
                      !.microQ = Append(@, i),
                      !.askEarly = @ \/ ~X.answered]
      [] OTHER -> TurboRun(X, i)

\* the loop of the hooked Code.prototype.tick, from the last executor down
RECURSIVE TurboPass(_, _)
TurboPass(X, i) ==
    IF i < 1 THEN X
    ELSE TurboPass(TurboNext([X EXCEPT !.order = Append(@, i)], i), i - 1)

\* the continuations after the await of a finished yield*
RECURSIVE TurboDrain(_)
TurboDrain(X) ==
    IF X.microQ = <<>> THEN X
    ELSE LET i == Head(X.microQ) IN
         TurboDrain(TurboRun([X EXCEPT !.microQ = Tail(@),
                                       !.execs[i].gs = "yield"], i))

\* the turbo variables after an operation that ends in the state X
TurboSet(X) ==
    /\ tcache' = X.cache
    /\ made' = X.made
    /\ codeExecutors' = X.execs
    /\ tlast' = X.last
    /\ seen' = X.seen
    /\ compiles' = X.compiles
    /\ early' = X.early
    /\ answered' = X.answered
    /\ askEarly' = X.askEarly
    /\ stepOrder' = X.order

\* the history of the cache is forgotten when the cache is cleared
Cleared(X) ==
    [X EXCEPT !.cache = TurboCompiler_clearCache,
              !.seen = [p \in TreeOwners |-> 0],
              !.compiles = [p \in TreeOwners |-> 0]]

\* An entry point of the host engine: the host's own function under `layers'
\* wrappers of EntryTurbo; bound is TRUE for a copy made by Function.bind.
\* layers = -1 stands for null.
Engine0 ==
    [toggleRun |-> [layers |-> 0, bound |-> FALSE],
     toggleStop |-> [layers |-> 0, bound |-> FALSE],
     originalToggleRun |-> [layers |-> 0 - 1, bound |-> FALSE],
     originalToggleStop |-> [layers |-> 0 - 1, bound |-> FALSE]]

\* EntryTurbo._hookEntryEngine(): keeps bound copies of the entry points and
\* puts a wrapper that calls the copy in the place of each
hookEntryEngine(e) ==
    [toggleRun |-> [layers |-> e.toggleRun.layers + 1, bound |-> FALSE],
     toggleStop |-> [layers |-> e.toggleStop.layers + 1, bound |-> FALSE],
     originalToggleRun |-> [e.toggleRun EXCEPT !.bound = TRUE],
     originalToggleStop |-> [e.toggleStop EXCEPT !.bound = TRUE]]

\* the mutant that leaves the wrappers of the entry points in place
restoreEngine_keeps(e) == e

\* EntryTurbo.eject(): puts the kept copies back
restoreEngine(e) ==
    [e EXCEPT !.toggleRun = IF e.originalToggleRun.layers >= 0
                            THEN e.originalToggleRun ELSE @,
              !.toggleStop = IF e.originalToggleStop.layers >= 0
                             THEN e.originalToggleStop ELSE @]

\* EntryTurbo.inject()
Inject ==
    /\ hooks < MaxInjects
    /\ IF injected THEN UNCHANGED <<injected, hooks, engine>>
       ELSE /\ injected' = TRUE
            /\ hooks' = hooks + 1
            /\ engine' = hookEntryEngine(engine)
    /\ TurboSet(TurboNow)
    /\ UNCHANGED active
    /\ UNCHANGED <<standaloneVars, labVars>>

\* the hooked Entry.engine.toggleRun: the host starts its start scripts
ToggleRun ==
    /\ injected /\ ~active /\ codeExecutors = <<>>
    /\ active' = TRUE
    /\ TurboSet(NewExecutors(TurboNow, HostStart, 1, 0))
    /\ UNCHANGED <<injected, hooks, engine>>
    /\ UNCHANGED <<standaloneVars, labVars>>

\* the hooked Entry.engine.toggleStop: the host ends its executors
ToggleStop ==
    /\ injected
    /\ active' = FALSE
    /\ TurboSet([Cleared(TurboNow) EXCEPT !.execs = <<>>, !.made = 0])
    /\ UNCHANGED <<injected, hooks, engine>>
    /\ UNCHANGED <<standaloneVars, labVars>>

\* the host starts the script t of the object owner (a key, a click, ...)
HostEvent(t, owner) ==
    /\ active
    /\ TurboSet(NewExecutor(TurboNow, t, owner, 0))
    /\ UNCHANGED <<injected, active, hooks, engine>>
    /\ UNCHANGED <<standaloneVars, labVars>>

\* the user submits the input field that askAndWait has shown
HostAnswer ==
    /\ active /\ ~answered
    /\ \E i \in 1..Len(codeExecutors) : codeExecutors[i].gs = "ask"
    /\ TurboSet([TurboNow EXCEPT !.answered = TRUE])
    /\ UNCHANGED <<injected, active, hooks, engine>>
    /\ UNCHANGED <<standaloneVars, labVars>>

\* the hooked Code.prototype.tick
CodeTick ==
    /\ active
    /\ TurboSet(TurboDrain(TurboPass(TurboNow, Len(codeExecutors))))
    /\ UNCHANGED <<injected, active, hooks, engine>>
    /\ UNCHANGED <<standaloneVars, labVars>>

\* Code.prototype.tick while EntryTurbo is not active: the hook hands the
\* call to the host's own tick, which advances no _turboGenerator
OriginalTick ==
    /\ ~active
    /\ TurboSet(TurboNow)
    /\ UNCHANGED <<injected, active, hooks, engine>>
    /\ UNCHANGED <<standaloneVars, labVars>>

\* EntryTurbo.eject()
Eject ==
    /\ IF ~injected
       THEN TurboSet(TurboNow) /\ UNCHANGED <<injected, active, engine>>
       ELSE /\ engine' = restoreEngine(engine)
            /\ injected' = FALSE
            /\ active' = FALSE
            /\ TurboSet(Cleared(TurboNow))
    /\ UNCHANGED hooks
    /\ UNCHANGED <<standaloneVars, labVars>>

TurboBounded ==
    /\ made' <= MaxArtifacts
    /\ Len(codeExecutors') <= MaxTurboExecutors

TurboInit ==
    /\ injected = FALSE
    /\ active = FALSE
    /\ hooks = 0
    /\ engine = Engine0
    /\ tcache = <<>>
    /\ made = 0
    /\ codeExecutors = <<>>
    /\ tlast = TLast0
    /\ seen = [p \in TreeOwners |-> 0]
    /\ compiles = [p \in TreeOwners |-> 0]
    /\ early = FALSE
    /\ answered = FALSE
    /\ askEarly = FALSE
    /\ stepOrder = <<>>

----------------------------------------------------------------------------
(* The code the two compilers generate for loops, run one instruction at a
   time: the generator's position is part of the state *)

\* _loopCount limits of the standalone compiler
RepeatLimit == 100000
RepeatInfLimit == 1000

MaxIterations == 2010

Compilers == {"standalone", "turbo"}

\* a parameter that is a block of a type no compiler knows
Nested(type) == [k |-> "block", n |-> 0, s |-> type]

\* the values of the entity's fields
Number(n) == [k |-> "number", n |-> n]
Undefined == [k |-> "undefined", n |-> 0]
NaN == [k |-> "NaN", n |-> 0]

\* a + b
Plus(a, b) == IF a.k = "number" /\ b.k = "number" THEN Number(a.n + b.n) ELSE NaN

LoopThreads ==
    << <<Blk("when_run_button_click", <<>>),
         BlkS("repeat_inf", <<>>, << <<Blk("move_x", <<Num(10)>>)>> >>)>>,
       <<Blk("when_run_button_click", <<>>),
         BlkS("repeat_basic", <<Num(3)>>, << <<Blk("move_x", <<Num(10)>>)>> >>),
         Blk("hide", <<>>)>>,
       <<Blk("when_run_button_click", <<>>),
         BlkS("repeat_basic", <<Num(2)>>,
              << <<Blk("move_x", <<Num(10)>>),
                   BlkS("repeat_basic", <<Num(3)>>,
                        << <<Blk("move_x", <<Num(10)>>)>> >>),
                   Blk("move_y", <<Num(10)>>)>> >>),
         Blk("hide", <<>>)>>,
       <<Blk("when_run_button_click", <<>>),
         BlkS("repeat_basic", <<Num(0)>>, << <<Blk("move_x", <<Num(10)>>)>> >>),
         Blk("hide", <<>>)>>,
       <<Blk("when_run_button_click", <<>>),
         BlkS("repeat_basic", <<Num(2)>>,
              << <<Blk("move_x", <<Num(10)>>), Blk("stop_repeat", <<>>)>> >>),
         Blk("hide", <<>>)>>,
       <<Blk("when_run_button_click", <<>>),
         BlkS("repeat_basic", <<Num(2)>>,
              << <<Blk("wait_second", <<Num(1)>>), Blk("move_x", <<Num(10)>>)>> >>),
         Blk("hide", <<>>)>>,
       <<Blk("when_run_button_click", <<>>),
         Blk("move_x", <<Num(10)>>),
         Blk("mystery_block", <<Num(5)>>),
         Blk("move_x", <<Num(10)>>)>>,
       <<Blk("when_run_button_click", <<>>),
         Blk("move_x", <<Num(10)>>),
         Blk("locate_x", <<Nested("mystery_value")>>),
         Blk("move_x", <<Num(10)>>)>>,
       <<Blk("when_run_button_click", <<>>),
         Blk("move_x", <<Nested("mystery_value")>>),
         Blk("move_x", <<Num(10)>>)>>,
       <<Blk("when_run_button_click", <<>>),
         Blk("move_x", <<Num(10)>>),
         Blk("stop_repeat", <<>>),
         Blk("move_x", <<Num(10)>>)>>,
       <<Blk("when_run_button_click", <<>>),
         BlkS("repeat_inf", <<>>,
              << <<BlkS("repeat_basic", <<Num(3)>>,
                        << <<Blk("move_x", <<Num(10)>>)>> >>)>> >>)>>,
       <<Blk("when_run_button_click", <<>>),
         BlkS("repeat_while_true", <<Num(1)>>,
              << <<Blk("move_x", <<Num(10)>>)>> >>),
         Blk("hide", <<>>)>> >>

HatTypes ==
    {"when_run_button_click", "when_some_key_pressed", "when_object_click",
     "when_message_cast", "when_clone_start", "when_scene_start"}

Ins(o, a, b) == [op |-> o, a |-> a, b |-> b]

\* the statement blocks of the threads that both compilers know
KnownStatements == {"move_x", "move_y", "locate_x", "hide"}

\* the statements that put their parameter to the right of an operator
OperandStatements == {"move_x", "move_y"}

\* What the text generated for a parameter evaluates to.  A nested block of
\* an unknown type becomes `0` in the injected compiler (compileExpression)
\* and the comment of compileDefaultBlock in the standalone one, which is no
\* expression at all: as a call's only argument it leaves the argument out.
LabParam(compiler, p) ==
    IF p.k = "num" THEN Number(p.n)
    ELSE IF compiler = "turbo" THEN Number(0)
    ELSE Undefined

\* a fallback fragment that leaves the thread
compileFallback_return(compiler, type) == <<Ins("return", 0, 0)>>

\* the text generated for a statement block of an unknown type: a warning
\* on the console in the injected compiler, a comment in the standalone one
compileFallback(compiler, type) ==
    IF compiler = "turbo" THEN <<Ins("warn", type, 0)>>
    ELSE <<Ins("comment", type, 0)>>

\* a head test that lets one more iteration pass before it yields
CountCheck_late(compiler, limit) ==
    IF compiler = "standalone"
    THEN <<Ins("inc_gt", limit + 1, 0), Ins("yield", "tick", 0), Ins("reset", 0, 0)>>
    ELSE <<>>

\* the mutant whose loops do not count their iterations
CountCheck_absent(compiler, limit) == <<>>

\* the test `if (++_loopCount > limit) { yield { type: 'tick' }; _loopCount = 0; }`
\* that the standalone compiler puts at the head of a loop body
CountCheck(compiler, limit) ==
    IF compiler = "standalone"
    THEN <<Ins("inc_gt", limit, 0), Ins("yield", "tick", 0), Ins("reset", 0, 0)>>
    ELSE <<>>

\* the `yield { type: 'tick' };` that the injected compiler puts at the end
\* of a loop body
IterationYield(compiler) ==
    IF compiler = "turbo" THEN <<Ins("yield", "tick", 0)>> ELSE <<>>

\* the `break;` statements of a loop body leave the loop: the instruction at
\* position q of the body, which starts after `base` instructions of the
\* loop, jumps to the loop's position `exit`
PatchBreaks(inner, base, exit) ==
    [q \in 1..Len(inner) |->
        IF inner[q].op = "break" THEN Ins("jmp", exit - (base + q), 0)
        ELSE inner[q]]

\* for (let _i = 0; _i < count; _i++) { inner }
compileRepeat(count, inner) ==
    LET L == Len(inner) IN
    <<Ins("for_init", 0, 0), Ins("for_test", count, L + 2)>>
    \o PatchBreaks(inner, 2, L + 4)
    \o <<Ins("for_inc", -(L + 1), 0), Ins("for_end", 0, 0)>>

\* while (true) { inner }
compileRepeatInf(inner) ==
    LET L == Len(inner) IN
    PatchBreaks(inner, 0, L + 2) \o <<Ins("loop", -L, 0)>>

\* while (condition) { inner }
compileRepeatWhile(condition, inner) ==
    LET L == Len(inner) IN
    <<Ins("while_test", condition, L + 2)>>
    \o PatchBreaks(inner, 1, L + 3)
    \o <<Ins("while_loop", -(L + 1), 0)>>

\* the instructions of the text compileBlock generates for a block list
RECURSIVE LoopCode(_, _), LoopBlock(_, _)
LoopBlock(b, compiler) ==
    LET body == IF b.statements = <<>> THEN <<>>
                ELSE LoopCode(b.statements[1], compiler)
    IN
    CASE b.type \in HatTypes -> <<>>
      [] b.type = "repeat_basic" ->
            compileRepeat(b.params[1].n,
                          CountCheck(compiler, RepeatLimit) \o body
                          \o IterationYield(compiler))
      [] b.type = "repeat_inf" ->
            compileRepeatInf(CountCheck(compiler, RepeatInfLimit) \o body
                             \o IterationYield(compiler))
      [] b.type = "repeat_while_true" ->
            compileRepeatWhile(LabParam(compiler, b.params[1]),
                               CountCheck(compiler, RepeatLimit) \o body
                               \o IterationYield(compiler))
      [] b.type = "stop_repeat" -> <<Ins("break", 0, 0)>>
      [] b.type = "stop_object" -> <<Ins("return", 0, 0)>>
      [] b.type = "wait_second" -> <<Ins("yield", "wait", b.params[1].n * 1000)>>
      [] b.type \in KnownStatements ->
            <<Ins("stmt", b.type,
                  IF b.params = <<>> THEN Number(0)
                  ELSE LabParam(compiler, b.params[1]))>>
      [] OTHER -> compileFallback(compiler, b.type)

LoopCode(bs, compiler) ==
    IF bs = <<>> THEN <<>>
    ELSE LoopBlock(Head(bs), compiler) \o LoopCode(Tail(bs), compiler)

\* a loop condition that lets the counter reach the count
ForTest_inclusive(i, max) == i <= max

\* the condition `_i < count` of a counted loop
ForTest(i, max) == i < max

\* Whether new Function accepts the operands of the text generated for bs:
\* the standalone compiler writes `entity.x + ` and then the comment of an
\* unknown nested block, which leaves the operator without its operand
RECURSIVE OperandsOK(_, _)
OperandsOK(bs, compiler) ==
    \A i \in 1..Len(bs) :
        /\ bs[i].type \in OperandStatements /\ compiler = "standalone" =>
              \A j \in 1..Len(bs[i].params) : bs[i].params[j].k # "block"
        /\ \A j \in 1..Len(bs[i].statements) :
              OperandsOK(bs[i].statements[j], compiler)

LabSyntaxOK(thread, compiler) == SyntaxOK(thread) /\ OperandsOK(thread, compiler)

\* compileThread of either compiler: the generated code, or when new Function
\* throws the empty generator of createFunction (standalone) or the fallback
\* thread (injected), whose executeEntryBlock skips every block
LabCompile(thread, compiler) ==
    IF LabSyntaxOK(thread, compiler) THEN LoopCode(thread, compiler)
    ELSE IF compiler = "turbo" THEN createFallbackThread(thread)
    ELSE <<>>

LabCode == LabCompile(LoopThreads[labThread.t], labThread.compiler)

Gen0 == [pc |-> 1, state |-> "start", is |-> <<>>, loopCount |-> 0, x |-> Number(0)]

Trace0 ==
    [runs |-> <<>>, ticks |-> 0, waits |-> 0, quiet |-> 0, iterations |-> 0,
     warnings |-> 0, sinceYield |-> 0]

\* no helper has been called
Call0 ==
    [op |-> "", block |-> Blk("", <<>>), paramName |-> Str(""), position |-> 0,
     schema |-> [exists |-> FALSE, keyed |-> FALSE, paramsKeyMap |-> <<>>],
     register |-> [params |-> <<>>, paramMap |-> <<>>],
     result |-> Num(0)]

\* no generated code is running
LabIdle ==
    /\ labThread = [t |-> 0, compiler |-> ""]
    /\ gen = Gen0
    /\ trace = Trace0
    /\ call = Call0

\* compiledFn(entity, runtime): a generator of the code of one thread
LabInit ==
    /\ labThread \in [t : 1..Len(LoopThreads), compiler : Compilers]
    /\ gen = Gen0
    /\ trace = [Trace0 EXCEPT !.runs = [q \in 1..Len(LabCode) |-> 0]]
    /\ call = Call0

\* generator.next() of the scheduler: the body goes on after its yield
LoopResume ==
    /\ gen.state \in {"start", "yield"}
    /\ gen' = [gen EXCEPT !.state = "run"]
    /\ UNCHANGED <<labThread, trace, call>>
    /\ UNCHANGED <<standaloneVars, turboVars>>

\* the running body executes the instruction at its position
LoopExec ==
    /\ gen.state = "run"
    /\ trace.iterations < MaxIterations
    /\ IF gen.pc > Len(LabCode)
       THEN gen' = [gen EXCEPT !.state = "done"] /\ UNCHANGED trace
       ELSE
       LET o    == LabCode[gen.pc]
           top  == Len(gen.is)
           next == [gen EXCEPT !.pc = gen.pc + 1]
       IN
       CASE o.op = "for_init" ->
               /\ gen' = [next EXCEPT !.is = Append(@, 0)]
               /\ UNCHANGED trace
         [] o.op = "for_test" ->
               /\ gen' = IF ForTest(gen.is[top], o.a) THEN next
                         ELSE [gen EXCEPT !.pc = gen.pc + o.b]
               /\ UNCHANGED trace
         [] o.op = "for_inc" ->
               /\ gen' = [gen EXCEPT !.pc = gen.pc + o.a, !.is[top] = @ + 1]
               /\ trace' = [trace EXCEPT !.iterations = @ + 1,
                                         !.sinceYield = @ + 1]
         [] o.op = "while_test" ->
               /\ gen' = IF o.a.k = "number" /\ o.a.n # 0 THEN next
                         ELSE [gen EXCEPT !.pc = gen.pc + o.b]
               /\ UNCHANGED trace
         [] o.op = "while_loop" ->
               /\ gen' = [gen EXCEPT !.pc = gen.pc + o.a]
               /\ trace' = [trace EXCEPT !.iterations = @ + 1,
                                         !.sinceYield = @ + 1]
         [] o.op = "for_end" ->
               /\ gen' = [next EXCEPT !.is = SubSeq(@, 1, top - 1)]
               /\ UNCHANGED trace
         [] o.op = "inc_gt" ->
               /\ gen' = [gen EXCEPT !.loopCount = @ + 1,
                                     !.pc = IF gen.loopCount + 1 > o.a
                                            THEN gen.pc + 1 ELSE gen.pc + 3]
               /\ UNCHANGED trace
         [] o.op = "reset" ->
               /\ gen' = [next EXCEPT !.loopCount = 0]
               /\ UNCHANGED trace
         [] o.op = "yield" ->
               /\ gen' = [next EXCEPT !.state = "yield"]
               /\ trace' = [trace EXCEPT
                               !.ticks = @ + (IF o.a = "tick" THEN 1 ELSE 0),
                               !.waits = @ + (IF o.a = "wait" THEN 1 ELSE 0),
                               !.quiet = 0, !.sinceYield = 0]
         [] o.op = "loop" ->
               /\ gen' = [gen EXCEPT !.pc = gen.pc + o.a]
               /\ trace' = [trace EXCEPT !.iterations = @ + 1, !.quiet = @ + 1,
                                         !.sinceYield = @ + 1]
         [] o.op = "jmp" ->
               /\ gen' = [gen EXCEPT !.pc = gen.pc + o.a]
               /\ UNCHANGED trace
         [] o.op = "return" ->
               /\ gen' = [gen EXCEPT !.state = "done"]
               /\ UNCHANGED trace
         [] o.op \in {"comment", "warn"} ->
               /\ gen' = next
               /\ trace' = [trace EXCEPT
                               !.warnings = @ + (IF o.op = "warn" THEN 1 ELSE 0)]
         [] OTHER ->
               \* a statement: entity.setX(entity.x + p), entity.setX(p), ...
               /\ gen' = [next EXCEPT !.x = CASE o.a = "move_x" -> Plus(@, o.b)
                                               [] o.a = "locate_x" -> o.b
                                               [] OTHER -> @]
               /\ trace' = [trace EXCEPT !.runs[gen.pc] = @ + 1]
    /\ UNCHANGED <<labThread, call>>
    /\ UNCHANGED <<standaloneVars, turboVars>>

InitLoop == project = "main" /\ EmptyRuntime /\ TurboInit /\ LabInit

NextLoop ==
    \/ LoopResume
    \/ LoopExec

SpecLoop == InitLoop /\ [][NextLoop]_vars

----------------------------------------------------------------------------
(* TurboCompiler and TurboRuntime of the injected script: parameter         *)
(* resolution and procedure parameters.  A compiled expression is the value *)
(* it denotes: a literal, or a call of runtime.getFunctionParam.            *)

\* the longest parameter list of a block
MaxParams == 2

\* Entry.block?.[type]: no schema, a schema without paramsKeyMap, and schemas
\* whose paramsKeyMap declares both names in call-site order, in the opposite
\* order, or the first name only
Schemas ==
    { [exists |-> FALSE, keyed |-> FALSE, paramsKeyMap |-> <<>>],
      [exists |-> TRUE, keyed |-> FALSE, paramsKeyMap |-> <<>>],
      [exists |-> TRUE, keyed |-> TRUE,
       paramsKeyMap |-> [n \in {"VALUE1", "VALUE2"} |-> IF n = "VALUE1" THEN 0 ELSE 1]],
      [exists |-> TRUE, keyed |-> TRUE,
       paramsKeyMap |-> [n \in {"VALUE1", "VALUE2"} |-> IF n = "VALUE1" THEN 1 ELSE 0]],
      [exists |-> TRUE, keyed |-> TRUE,
       paramsKeyMap |-> [n \in {"VALUE1"} |-> 0]] }

\* block.params?.[idx]
ParamAt(block, idx) ==
    IF idx + 1 \in 1..Len(block.params) THEN block.params[idx + 1]
    ELSE [k |-> "undefined", n |-> 0, s |-> ""]

\* compileParamValue(param)
compileParamValue(param) ==
    CASE param.k = "undefined" -> Num(0)
      [] param.k \in {"num", "str"} -> param
      [] param.k = "block" ->
            IF param.s \in {"stringParam_a", "booleanParam_b"}
            THEN [k |-> "getFunctionParam", n |-> 0, s |-> param.s]
            ELSE Num(0)
      [] OTHER -> Num(0)

\* getParam(block, paramName, schema)
getParam(block, paramName, schema) ==
    IF ~(schema.exists /\ schema.keyed)
    THEN LET idx == IF paramName.k = "num" THEN paramName.n ELSE 0 IN
         compileParamValue(ParamAt(block, idx))
    ELSE IF ~(paramName.k = "str" /\ paramName.s \in DOMAIN schema.paramsKeyMap)
    THEN Num(0)
    ELSE compileParamValue(ParamAt(block, schema.paramsKeyMap[paramName.s]))

\* getFunctionParam(entity, paramType)
getFunctionParam(entity, paramType) == Num(0)

\* a block compiler resolves a parameter of its block: the call site names
\* the parameter, or gives its position in the block's parameter list
GetParamCall ==
    /\ \E params \in UNION {[1..n -> {Num(3), Num(4)}] : n \in 0..MaxParams},
          site \in {[name |-> Str("VALUE1"), position |-> 0],
                    [name |-> Str("VALUE2"), position |-> 1],
                    [name |-> Num(0), position |-> 0],
                    [name |-> Num(1), position |-> 1]},
          schema \in Schemas :
          call' = [Call0 EXCEPT
                     !.op = "getParam",
                     !.block = Blk("locate_xy", params),
                     !.paramName = site.name,
                     !.position = site.position,
                     !.schema = schema,
                     !.result = getParam(Blk("locate_xy", params), site.name, schema)]
    /\ UNCHANGED <<labThread, gen, trace>>
    /\ UNCHANGED <<standaloneVars, turboVars>>

\* callFunction(funcId, entity, params) binds the arguments of the call in
\* the register of the procedure's executor; the body evaluates the compiled
\* text of its parameter block
CallFunction ==
    /\ \E arg \in {Str("a"), Str("b"), Num(7)} :
          LET register == [params |-> <<arg>>,
                           paramMap |-> [t \in {"stringParam_a"} |-> 0]]
              code     == compileParamValue(Nested("stringParam_a"))
          IN  call' = [Call0 EXCEPT
                         !.op = "callFunction",
                         !.paramName = Str("stringParam_a"),
                         !.register = register,
                         !.result = IF code.k = "getFunctionParam"
                                    THEN getFunctionParam("obj1", code.s)
                                    ELSE code]
    /\ UNCHANGED <<labThread, gen, trace>>
    /\ UNCHANGED <<standaloneVars, turboVars>>

InitCalls == project = "main" /\ EmptyRuntime /\ TurboInit /\ LabIdle

NextCalls ==
    \/ GetParamCall
    \/ CallFunction

SpecCalls == InitCalls /\ [][NextCalls]_vars

----------------------------------------------------------------------------
(* The specifications *)

Init == project \in {"main", "hidden"} /\ EmptyRuntime /\ TurboInit /\ LabIdle

Next ==
    \/ LoadProject
    \/ Start /\ Bounded
    \/ Stop
    \/ TogglePause
    \/ Tick /\ Bounded
    \/ \E k \in KeyCodes : KeyDown(k) /\ Bounded
    \/ \E t \in CloneTargets : CreateCloneCall(t) /\ Bounded

Spec == Init /\ [][Next]_vars

InitTurbo == project = "main" /\ EmptyRuntime /\ TurboInit /\ LabIdle

NextTurbo ==
    \/ Inject
    \/ ToggleRun /\ TurboBounded
    \/ ToggleStop
    \/ \E p \in TreeOwners : HostEvent(p[1], p[2]) /\ TurboBounded
    \/ CodeTick /\ TurboBounded
    \/ HostAnswer
    \/ OriginalTick
    \/ Eject

SpecTurbo == InitTurbo /\ [][NextTurbo]_vars

----------------------------------------------------------------------------
(* The clone limit: the standalone runtime of a project whose clones only
   run a short script, with nothing that bounds the number of clones but
   createClone itself *)

InitClone == project = "solo" /\ EmptyRuntime /\ TurboInit /\ LabIdle

NextClone ==
    \/ LoadProject
    \/ Stop
    \/ \E t \in CloneTargets : CreateCloneCall(t)

SpecClone == InitClone /\ [][NextClone]_vars

----------------------------------------------------------------------------
(* Keys, clones and variables: the standalone runtime of the project
   "events" *)

InitEvents == project = "events" /\ EmptyRuntime /\ TurboInit /\ LabIdle

NextEvents ==
    \/ LoadProject
    \/ Start /\ EventsBounded
    \/ Stop
    \/ Tick /\ EventsBounded
    \/ \E k \in KeyCodes : KeyDown(k) /\ EventsBounded
    \/ \E t \in CloneTargets : CreateCloneCall(t) /\ EventsBounded
    \/ \E t \in CloneTargets : BundleCreateCloneCall(t) /\ EventsBounded

SpecEvents == InitEvents /\ [][NextEvents]_vars

\* The events project with clicks on its entities
NextClick ==
    \/ LoadProject
    \/ Start /\ EventsBounded
    \/ Stop
    \/ Tick /\ EventsBounded
    \/ \E k \in KeyCodes : KeyDown(k) /\ EventsBounded
    \/ \E k \in 1..Len(entities) : MouseDown(k) /\ EventsBounded

SpecClick == InitEvents /\ [][NextClick]_vars

\* The two schedulers side by side: a behaviour is one of the standalone
\* runtime with the events project, or one of the injected JIT.
NextTicks ==
    \/ hooks = 0 /\ NextEvents
    \/ lastOp = "new" /\ NextTurbo

SpecTicks == InitEvents /\ [][NextTicks]_vars

----------------------------------------------------------------------------
(* Properties of the standalone runtime, checked under Spec *)

\* C3 (as stated): an executor started while a scheduling pass is running is
\* not stepped in that pass; no pass has stepped an executor that was pushed
\* during that same pass.
C3_SpawnedNotSteppedInSamePass == hist.sameTick = FALSE

\* C5 (as stated): an executor suspended in broadcastAndWait resumes once
\* every executor started by its own broadcast is terminal; no pass leaves
\* such an executor suspended although all of them are done.
C5_ResumesWhenOwnHandlersDone == hist.stuck = FALSE

\* C6: when stop() returns, the live-executor set and the live-clone set are
\* both empty (and nothing is pending).
C6_StopEmptiesLiveSets ==
    lastOp = "stop" =>
        executors = <<>> /\ pendingExecutors = <<>> /\ clones = <<>>

\* stop() was called with executors live and at least two clones live
C6_Witness == lastOp = "stop" /\ hist.nClones >= 2 /\ hist.nExecutors > 0

\* C7: when stop() returns, every primary entity's position, rotation,
\* visibility and costume index equal the snapshot taken at its construction.
C7_StopRestoresSnapshot ==
    lastOp = "stop" =>
        \A k \in 1..Len(heap) :
            /\ heap[k].x = heap[k].initialState.x
            /\ heap[k].y = heap[k].initialState.y
            /\ heap[k].rotation = heap[k].initialState.rotation
            /\ heap[k].visible = heap[k].initialState.visible
            /\ heap[k].currentCostumeIndex = heap[k].initialState.currentCostumeIndex

\* stop() was called while some primary entity differed from its snapshot
C7_Witness == lastOp = "stop" /\ hist.dirty

\* C8 (as stated): when stop() returns, the compilation cache is empty.
C8_StopClearsCache == lastOp = "stop" => DOMAIN cache = {}

\* the number of executors of the sequence q bound to the primary entity k
RECURSIVE CountFor(_, _)
CountFor(q, k) ==
    IF q = <<>> THEN 0
    ELSE (IF Head(q).entity = Ref(FALSE, k) THEN 1 ELSE 0) + CountFor(Tail(q), k)

\* the start scripts the project data gives to its k-th object
StartScripts(k) ==
    LET script == ObjectsOf(project)[k].script IN
    {t \in 1..Len(script) :
        script[t] # <<>> /\ script[t][1].type = "when_run_button_click"}

\* C9 (as stated): firing the start event starts exactly one executor for
\* each primary entity that has a start script and none for the others.
C9_OneExecutorPerEntity ==
    lastOp = "start" /\ hist.fired =>
        \A k \in 1..Len(heap) :
            CountFor(hist.firedStart, k) = IF StartScripts(k) # {} THEN 1 ELSE 0

\* C9 (amended): firing the start event starts one executor for every start
\* script of every primary entity that is visible at that moment, none for a
\* hidden entity or an entity without start script, and no other executor.
C9_OneExecutorPerVisibleScript ==
    lastOp = "start" /\ hist.fired =>
        /\ \A k \in 1..Len(heap) :
              CountFor(hist.firedStart, k) =
                 IF hist.visibleAt[k] THEN Cardinality(StartScripts(k)) ELSE 0
        /\ \A j \in 1..Len(hist.firedStart) : ~hist.firedStart[j].entity.c

\* start fired on a project with a hidden entity that has a start script and
\* a visible entity that has two
C9_Witness ==
    /\ lastOp = "start" /\ hist.fired
    /\ \E k \in 1..Len(heap) : ~hist.visibleAt[k] /\ StartScripts(k) # {}
    /\ \E k \in 1..Len(heap) : hist.visibleAt[k] /\ Cardinality(StartScripts(k)) = 2

\* C39: while the runtime is paused the live executor set does not change: a
\* key press received during the pause adds no executor.  The keydown
\* listener tests only `running`, so a press during the pause starts the
\* key scripts and they run on the first frame after the pause.
C39_PausedKeyAddsNoExecutor ==
    (lastOp = "keydown" /\ paused) => Len(executors) = hist.nExecutors

\* C40: start() is idempotent while running: a start() of a running runtime
\* fires no start event, adds no executor and requests no frame, so at most
\* one frame callback is pending at any time and no executor is stepped twice
\* in one frame.
C40_StartIdempotentWhileRunning ==
    /\ [][(lastOp' = "start" /\ running) =>
            /\ ~hist'.fired
            /\ UNCHANGED <<running, paused, rafId, frames, executors, heap,
                           cloneHeap, clones, variables, clock>>]_vars
    /\ [](frames <= 1)
    /\ [](\A i, j \in 1..Len(hist.stepped) :
              i # j => hist.stepped[i] # hist.stepped[j])

\* a start() of a running runtime that has executors and a pending frame
C40_Witness ==
    /\ lastOp = "start"
    /\ ~hist.fired
    /\ running
    /\ executors # <<>>
    /\ frames = 1

----------------------------------------------------------------------------
(* Properties of the clone limit, checked under SpecClone *)

\* C10: the number of live clones never exceeds 360, and a request to clone
\* an existing object made while 360 clones are live leaves the number of
\* live entities unchanged and starts no executor.
C10_CloneLimit ==
    /\ Len(clones) <= MaxClones
    /\ lastOp = "createClone" /\ hist.nClones >= MaxClones =>
          /\ Len(clones) = hist.nClones
          /\ Len(cloneHeap) = hist.nClones
          /\ Len(executors) = hist.nExecutors

\* a clone of obj1 was requested while 360 clones were live
C10_Witness ==
    lastOp = "createClone" /\ hist.target = "obj1" /\ hist.nClones = MaxClones

\* C11 (as stated): an executor whose step raised an uncaught error is out of
\* the live set by the end of that tick: no executor that is live between two
\* operations has raised.
C11_ThrowingExecutorDiscarded ==
    \A i \in 1..Len(executors) : ~executors[i].threw

\* C12 (as stated): an executor that yielded a wait of d milliseconds in a
\* tick at time t is skipped by every tick earlier than t + d: no pass steps
\* an executor whose wait is not over yet.
C12_SkippedUntilDue == hist.earlyWake = FALSE

\* C21 (as stated): the executors that ended in a pass are removed after the
\* pass: no executor whose thread has ended is in the live set between two
\* operations.
C21_EndedExecutorsRemoved ==
    \A i \in 1..Len(executors) : executors[i].gs # "done"

C30_PausedFramesStepNothing ==
    /\ [][paused /\ lastOp' = "tick" =>
            UNCHANGED <<executors, pendingExecutors, heap, cloneHeap, clones,
                        variables, paused, running>>]_vars
    /\ [][lastOp' = "togglePause" =>
            /\ paused' = ~paused
            /\ UNCHANGED <<executors, pendingExecutors, heap, cloneHeap, clones,
                           variables, running>>]_vars
    /\ [][lastOp' = "tick" /\ running /\ ~paused /\ rafId =>
            \E now \in Times :
                executors' = updateExecutors(Now, pendingExecutors, eventListeners,
                                             objects, fns, now).executors]_vars

\* a frame came while the runtime was paused with an executor suspended in
\* the middle of its thread
C30_Witness ==
    /\ lastOp = "tick" /\ running /\ paused
    /\ \E j \in 1..Len(executors) :
          executors[j].gs = "yield" /\ executors[j].pc > 1

----------------------------------------------------------------------------
(* Properties of key and clone events, checked under SpecEvents *)

\* C22: a key press that fires while the project runs starts exactly one new
\* executor for each (entity, thread) pair registered under the key of that
\* key code whose entity is visible at that moment, in registration order,
\* none for a pair whose entity is hidden, and none for a pair registered
\* under another key.
C22_FiresRegisteredVisiblePairs ==
    lastOp = "keydown" /\ hist.fired =>
        LET key     == <<"keyPress">> \o NumberToString(hist.keyCode)
            pairs   == IF key \in DOMAIN eventListeners
                       THEN eventListeners[key] ELSE <<>>
            visible == SelectSeq(pairs, LAMBDA l : Ent(Now, l.entity).visible)
        IN  /\ Len(executors) = hist.nExecutors + Len(visible)
            /\ Pairs(executors, hist.nExecutors) = visible
            /\ \A j \in (hist.nExecutors + 1)..Len(executors) :
                  executors[j].gs = "start"

\* a key fired whose registry entry holds a pair of a visible entity and a
\* pair of a hidden one, while another key code has pairs of its own
C22_Witness ==
    /\ lastOp = "keydown" /\ hist.fired
    /\ LET key   == <<"keyPress">> \o NumberToString(hist.keyCode)
           pairs == IF key \in DOMAIN eventListeners
                    THEN eventListeners[key] ELSE <<>>
       IN  /\ \E q \in 1..Len(pairs) : Ent(Now, pairs[q].entity).visible
           /\ \E q \in 1..Len(pairs) : ~Ent(Now, pairs[q].entity).visible
           /\ \E k \in DOMAIN eventListeners \ {key} :
                 k[1] = "keyPress" /\ eventListeners[k] # <<>>
           /\ Len(executors) > hist.nExecutors

\* C23 (as stated): a clone creation that succeeds adds exactly one new
\* entity and starts one executor for each on-clone-start script of the
\* template entity, in registration order, each bound to the new clone, and
\* no other executor.
C23_CloneStartsItsScripts ==
    lastOp = "createClone" /\ Len(clones) > hist.nClones =>
        LET all     == IF <<"clone">> \in DOMAIN eventListeners
                       THEN eventListeners[<<"clone">>] ELSE <<>>
            scripts == SelectSeq(all, LAMBDA l : l.entity = objects[hist.target])
            new     == clones[Len(clones)]
        IN  /\ Len(clones) = hist.nClones + 1
            /\ Pairs(executors, hist.nExecutors) =
                  [k \in 1..Len(scripts) |-> [entity |-> new, fn |-> scripts[k].fn]]

\* C24 (as stated): on every start of a loaded project, the first one and
\* each one that follows a stop, every variable holds the default value the
\* project declares for it at the moment the start scripts are fired.
C24_StartHoldsDefaults ==
    loaded /\ lastOp = "start" /\ hist.fired =>
        hist.variablesAt = Defaults(project)

\* C26: a clone has independent mutable state.  Every live clone is an
\* object of its own, distinct from every primary entity and from every
\* other clone; at its creation it has the template's position, rotation,
\* visibility and costume index and the template's costume catalog; the
\* catalog of an entity never changes after the project is loaded; and a
\* frame changes the state of no entity, template or clone, other than the
\* entities the executors that ran in it are bound to.
C26_CloneStateIndependent ==
    /\ [](\A i \in 1..Len(clones) :
             /\ clones[i].c
             /\ \A j \in 1..Len(clones) : clones[j] = clones[i] => j = i)
    /\ [](lastOp = "createClone" /\ Len(clones) > hist.nClones =>
             LET c == Ent(Now, clones[Len(clones)])
                 t == Ent(Now, objects[hist.target])
             IN  /\ c.costumes = t.costumes
                 /\ saveInitialState(c) = saveInitialState(t)
                 /\ c.isClone /\ ~t.isClone)
    /\ [][/\ \A i \in 1..Len(cloneHeap) :
                i <= Len(cloneHeap') => cloneHeap'[i].costumes = cloneHeap[i].costumes
          /\ \A k \in 1..Len(heap) :
                k <= Len(heap') => heap'[k].costumes = heap[k].costumes]_vars
    /\ [][lastOp' = "tick" /\ running /\ ~paused =>
            LET ran   == {j \in 1..Len(executors') :
                             j > Len(executors) \/ executors[j].gs # "done"}
                bound == {executors'[j].entity : j \in ran}
            IN
            /\ \A k \in 1..Len(heap) :
                  Ref(FALSE, k) \notin bound => heap'[k] = heap[k]
            /\ \A i \in 1..Len(cloneHeap) :
                  Ref(TRUE, i) \notin bound => cloneHeap'[i] = cloneHeap[i]]_vars

\* after a frame a live clone of obj1 has moved without its template, and
\* the template has turned without the clone
C26_Witness ==
    /\ lastOp = "tick"
    /\ \E i \in 1..Len(clones) :
          LET c == Ent(Now, clones[i]) IN
          /\ c.costumes = heap[1].costumes
          /\ c.y = 7 /\ heap[1].y = 0
          /\ c.rotation = 0 /\ heap[1].rotation = 90

\* C27 (as stated): a thread of a clone that has executed the delete block
\* has ended there and its clone is out of the live clone set; a thread of a
\* primary entity that has executed the delete block has removed nothing:
\* the primary is hidden and is still in the entity set.
C27_PrimaryDeleteHides ==
    \A j \in 1..Len(executors) :
        LET e    == executors[j]
            body == fns[e.fn]
            at   == {p \in 1..Len(body) : body[p].type = "delete_clone"}
        IN  e.gs = "done" /\ at # {} =>
                IF e.entity.c
                THEN /\ e.pc \in at
                     /\ \A i \in 1..Len(clones) : clones[i] # e.entity
                ELSE /\ \E k \in 1..Len(entities) : entities[k] = e.entity
                     /\ ~Ent(Now, e.entity).visible

\* C27 (amended): a thread of a clone that has executed the delete block has
\* ended at that block, its clone is hidden and out of the live clone set and
\* the blocks after the delete block have not run; a thread of a primary
\* entity that has executed the delete block has changed nothing by it: the
\* primary is in the entity set and as visible as before, and the thread has
\* gone on to its end.
C27_DeleteRemovesClonesOnly ==
    \A j \in 1..Len(executors) :
        LET e    == executors[j]
            body == fns[e.fn]
            at   == {p \in 1..Len(body) : body[p].type = "delete_clone"}
            me   == Ent(Now, e.entity)
        IN  e.gs = "done" /\ at # {} =>
                IF e.entity.c
                THEN /\ e.pc \in at
                     /\ \A i \in 1..Len(clones) : clones[i] # e.entity
                     /\ ~me.visible
                     /\ me.x # 9
                ELSE /\ \E k \in 1..Len(entities) : entities[k] = e.entity
                     /\ e.pc = Len(body) + 1
                     /\ me.visible
                     /\ me.x = 3 /\ variables["v"] = 5

\* a clone's thread and a primary's thread have both executed a delete block
C27_Witness ==
    /\ \E j \in 1..Len(executors) :
          /\ executors[j].gs = "done" /\ executors[j].entity.c
          /\ \E p \in 1..Len(fns[executors[j].fn]) :
                fns[executors[j].fn][p].type = "delete_clone"
    /\ \E j \in 1..Len(executors) :
          /\ executors[j].gs = "done" /\ ~executors[j].entity.c
          /\ \E p \in 1..Len(fns[executors[j].fn]) :
                fns[executors[j].fn][p].type = "delete_clone"

\* C34 (as stated): while frames keep coming, every executor whose thread is
\* finite ends and leaves the live set, and a run of finite scripts ends with
\* an empty live set.  A frame of a running, unpaused runtime that moves no
\* executor and changes no entity, clone or variable is a frame after which
\* every later frame finds the same state: if executors are to leave the live
\* set at all, none is left in it by then.
C34_QuietFrameHasNoExecutor ==
    [][/\ lastOp' = "tick" /\ rafId /\ running /\ ~paused
       /\ executors' = executors /\ heap' = heap /\ cloneHeap' = cloneHeap
       /\ clones' = clones /\ variables' = variables
       => executors' = <<>>]_vars

\* C35 (as stated): while the project runs, a click on a visible entity
\* starts exactly one executor for every click script that entity has
\* registered, each bound to the clicked entity, and none for the click
\* scripts of other entities.
C35_ClickStartsOwnScripts ==
    lastOp = "click" /\ hist.fired =>
        LET pairs == IF <<"click">> \in DOMAIN eventListeners
                     THEN eventListeners[<<"click">>] ELSE <<>>
            own   == SelectSeq(pairs,
                        LAMBDA l : Ent(Now, l.entity).id = hist.target)
        IN  /\ Len(executors) = hist.nExecutors + Len(own)
            /\ Pairs(executors, hist.nExecutors) = own

\* C36 (as stated): whenever the runtime is not running, before the first
\* start and after any stop, the live executor set is empty: no key, click,
\* message or clone event received while it is stopped adds an executor.
C36_StoppedHasNoExecutors == ~running => executors = <<>>

\* C37 (as stated): once a clone has been deleted, no executor bound to it is
\* stepped again: no pass resumes a thread that has not ended for a clone
\* which is out of the live clones when the thread is resumed.
C37_NoStepAfterDelete == hist.late = FALSE

\* the primary entities as loadProject leaves them, which is their state at
\* the first start
LoadedHeap ==
    LoadObjects([heap |-> <<>>, entities |-> <<>>, objects |-> <<>>,
                 cache |-> <<>>, fns |-> <<>>, el |-> <<>>],
                ObjectsOf(project), 1).heap

\* C38 (as stated): a start that follows a stop reproduces the first run: at
\* every start of a loaded project, when the start scripts are fired, the
\* whole mutable state of every primary entity, its size and scale factors
\* included, is its state at the first start.
C38_StartReproducesFirstRun ==
    loaded /\ lastOp = "start" /\ hist.fired => hist.heapAt = LoadedHeap

----------------------------------------------------------------------------
(* Properties of the injected JIT, checked under SpecTurbo *)

\* C1 (as stated): compileThread called again for the same tree and owner,
\* with no clear in between, returns the artifact it returned before; a
\* different tree for the same owner gets a different artifact.
C1_SameKeySameArtifact ==
    tlast.t # 0 =>
        /\ tlast.prev # 0 => tlast.fn = tlast.prev
        /\ \A t \in 1..Len(TurboThreads) :
              t # tlast.t /\ seen[<<t, tlast.owner>>] # 0 =>
                 seen[<<t, tlast.owner>>] # tlast.fn

\* C2 (as stated): between two clears of the cache every (tree, owner) key is
\* compiled at most once, whatever the outcome of the compilation.
C2_CompiledAtMostOnce == \A p \in TreeOwners : compiles[p] <= 1

\* C4 (as stated): an executor suspended in a broadcast-and-wait is not
\* resumed while an executor started by that broadcast is still live.
C4_NotResumedBeforeHandlersEnd == early = FALSE

\* C13 (as stated): an executor that asked and waits for the answer is skipped
\* by every tick until the answer is given: no tick lets askAndWait return
\* while the input field has not been submitted.
C13_SkippedUntilAnswered == askEarly = FALSE

----------------------------------------------------------------------------
(* Properties of the generated loop code, checked under SpecLoop *)

\* the block types of a block list, those of the nested bodies included
RECURSIVE TypesOf(_)
TypesOf(bs) ==
    IF bs = <<>> THEN {}
    ELSE LET b == Head(bs) IN
         {b.type}
         \cup (IF b.statements = <<>> THEN {} ELSE TypesOf(b.statements[1]))
         \cup TypesOf(Tail(bs))

\* how often every statement of a block list has to run when each counted
\* loop runs its body count times, in the order of the text
RECURSIVE Leaves(_, _, _)
Leaves(bs, mult, depth) ==
    IF bs = <<>> THEN <<>>
    ELSE LET b == Head(bs) IN
         (CASE b.type \in HatTypes \cup {"stop_repeat", "stop_object", "wait_second"} ->
                  <<>>
            [] b.type = "repeat_basic" ->
                  Leaves(b.statements[1], mult * b.params[1].n, depth + 1)
            [] b.type = "repeat_inf" -> Leaves(b.statements[1], mult, depth + 1)
            [] OTHER -> <<[n |-> mult, depth |-> depth]>>)
         \o Leaves(Tail(bs), mult, depth)

\* the positions of the statements in the generated code, in order
RECURSIVE StmtPositions(_, _)
StmtPositions(code, q) ==
    IF q > Len(code) THEN <<>>
    ELSE (IF code[q].op = "stmt" THEN <<q>> ELSE <<>>) \o StmtPositions(code, q + 1)

LabTypes == TypesOf(LoopThreads[labThread.t])

\* C14 (as stated): an unbounded loop whose body has no wait suspends at
\* least once within every 1000 consecutive iterations; even read generously,
\* no more than 1000 iterations are completed between two suspensions.
C14_YieldWithin1000 == trace.quiet <= RepeatInfLimit

\* C14 (amended): an unbounded loop whose body has no wait suspends at least
\* once within every 1001 consecutive iterations: no more than 1001
\* iterations are completed between two suspensions, so no step runs forever.
C14_YieldWithin1001 == trace.quiet <= RepeatInfLimit + 1

\* the standalone loop suspends for the second time, 1001 iterations after
\* the first suspension
C14_Witness ==
    /\ labThread = [t |-> 1, compiler |-> "standalone"]
    /\ gen.state = "yield"
    /\ trace.ticks = 2
    /\ trace.iterations = 2 * RepeatInfLimit + 1

\* C15: when a thread of counted loops without stop_repeat has finished, and
\* as soon as a statement that follows its loops has run, every statement has
\* run exactly as often as the counts of the loops around it say.
C15_BodyRunsCountTimes ==
    LET exp == Leaves(LoopThreads[labThread.t], 1, 0)
        pos == StmtPositions(LabCode, 1)
    IN  /\ labThread.t # 0
        /\ "repeat_basic" \in LabTypes
        /\ LabTypes \cap {"stop_repeat", "repeat_inf"} = {}
        =>
           /\ Len(pos) = Len(exp)
           /\ \A k \in 1..Len(pos) :
                 /\ trace.runs[pos[k]] <= exp[k].n
                 /\ gen.state = "done" => trace.runs[pos[k]] = exp[k].n
                 /\ \A j \in (k + 1)..Len(pos) :
                       exp[j].depth = 0 /\ trace.runs[pos[j]] > 0 =>
                          trace.runs[pos[k]] = exp[k].n

\* the nested loops 2 x 3 have finished: the inner statement ran 6 times
C15_Witness ==
    /\ labThread.t = 3
    /\ gen.state = "done"
    /\ \E q \in 1..Len(LabCode) : trace.runs[q] = 6

\* C16 (as stated): a counted loop whose body has no other suspension yields
\* once per iteration: when the thread has finished it has produced at least
\* as many tick suspensions as its loops completed iterations.
C16_TickPerIteration ==
    /\ labThread.t # 0
    /\ LabTypes \cap {"stop_repeat", "repeat_inf", "wait_second"} = {}
    /\ gen.state = "done"
    => trace.ticks >= trace.iterations

\* the entity's x after the statements of a flat block list have run in
\* order, a nested block of an unknown type counting as zero
RECURSIVE FlatX(_, _)
FlatX(bs, x) ==
    IF bs = <<>> THEN x
    ELSE LET b == Head(bs)
             v == IF b.params # <<>> /\ b.params[1].k = "num" THEN b.params[1].n ELSE 0
         IN  FlatX(Tail(bs), CASE b.type = "move_x" -> x + v
                                [] b.type = "locate_x" -> v
                                [] OTHER -> x)

\* the running generator is at the fragment of a block of an unknown type
AtUnknownFragment ==
    /\ labThread.t # 0
    /\ gen.state = "run"
    /\ gen.pc <= Len(LabCode)
    /\ LabCode[gen.pc].op \in {"comment", "warn"}

HasUnknownStatement == LabTypes \ (HatTypes \cup KnownStatements \cup LoopTypes
                                   \cup {"stop_repeat", "stop_object", "wait_second"}) # {}

\* C17: a thread with a statement block of an unknown type compiles, the
\* fragment of that block changes nothing but the position of the thread
\* when it runs, and the statements before and after it have run when the
\* thread has finished.
C17_UnknownStatementIsInert ==
    /\ [](labThread.t # 0 /\ HasUnknownStatement =>
            /\ LabSyntaxOK(LoopThreads[labThread.t], labThread.compiler)
            /\ gen.state = "done" =>
                  /\ gen.x = Number(FlatX(LoopThreads[labThread.t], 0))
                  /\ \A q \in 1..Len(LabCode) :
                        LabCode[q].op = "stmt" => trace.runs[q] = 1)
    /\ [][AtUnknownFragment =>
            /\ gen' = [gen EXCEPT !.pc = @ + 1]
            /\ trace'.runs = trace.runs
            /\ UNCHANGED <<standaloneVars, turboVars>>]_vars

\* the thread with the unknown block has finished: both move_x have run
C17_Witness ==
    /\ labThread.t # 0 /\ HasUnknownStatement
    /\ gen.state = "done"
    /\ gen.x = Number(20)
    /\ gen.pc > 3

\* C18 (as stated): a nested block of an unknown type in an expression
\* position counts as zero, and the statement around it and the rest of the
\* thread compile and run: the finished thread leaves the entity where the
\* statements put it with zero for the unknown block.
C18_UnknownExpressionIsZero ==
    /\ labThread.t # 0
    /\ \E i \in 1..Len(LoopThreads[labThread.t]) :
          LET b == LoopThreads[labThread.t][i] IN
          b.params # <<>> /\ b.params[1].k = "block"
    /\ gen.state = "done"
    => /\ LabSyntaxOK(LoopThreads[labThread.t], labThread.compiler)
       /\ gen.x = Number(FlatX(LoopThreads[labThread.t], 0))

\* C19 (as stated): a thread whose compilation failed is run by a fallback
\* thread that still executes its blocks: when it has finished, the entity is
\* where the thread's statements put it.
C19_FallbackRunsBlocks ==
    /\ labThread.t # 0
    /\ ~LabSyntaxOK(LoopThreads[labThread.t], labThread.compiler)
    /\ gen.state = "done"
    => gen.x = Number(FlatX(LoopThreads[labThread.t], 0))

----------------------------------------------------------------------------
(* Further properties of the injected JIT, checked under SpecTurbo *)

\* C20 (as stated): within one tick the executors are stepped in live-set
\* order: of two executors the last tick stepped, the one that is earlier in
\* the live set was stepped first.
C20_SteppedInLiveSetOrder ==
    \A a, b \in 1..Len(stepOrder) : a < b => stepOrder[a] < stepOrder[b]

----------------------------------------------------------------------------
(* Properties of parameter resolution, checked under SpecCalls *)

\* C28 (as stated): resolving a parameter of a block gives the parameter at
\* the index the schema declares for the name when the block type has a
\* schema that declares it, and otherwise the parameter at the position the
\* call site stands for.
C28_DeclaredIndexOrPosition ==
    call.op = "getParam" =>
        LET declared == /\ call.schema.exists /\ call.schema.keyed
                        /\ call.paramName.k = "str"
                        /\ call.paramName.s \in DOMAIN call.schema.paramsKeyMap
            index    == IF declared
                        THEN call.schema.paramsKeyMap[call.paramName.s]
                        ELSE call.position
        IN  call.result = compileParamValue(ParamAt(call.block, index))

\* C29 (as stated): the parameter block in the body of a procedure yields
\* the argument that the active call has bound to that parameter.
C29_ParamBlockYieldsArgument ==
    call.op = "callFunction" =>
        call.result =
            call.register.params[call.register.paramMap[call.paramName.s] + 1]

----------------------------------------------------------------------------
(* Properties of a scheduling pass, checked under SpecTicks *)

\* C32: a scheduling pass resumes every executor that is in the live set when
\* the pass begins and is not suspended exactly once, none skipped and none
\* twice, also when executors end or start other executors during the pass.
\* The standalone pass is the one of a frame of a running, unpaused runtime
\* and the one start() makes; the pass of the JIT is the hooked tick.
C32_EachSteppedExactlyOnce ==
    /\ [][(\/ lastOp' = "tick" /\ rafId /\ running /\ ~paused
           \/ lastOp' = "start" /\ ~running)
          => \A i \in 1..Len(executors) :
                executors[i].waitUntil <= clock' =>
                   Cardinality({k \in 1..Len(hist'.stepped) :
                                   hist'.stepped[k] = i}) = 1]_vars
    /\ [][CodeTick
          => \A i \in 1..Len(codeExecutors) :
                Cardinality({k \in 1..Len(stepOrder') : stepOrder'[k] = i}) = 1]_vars

\* a frame whose pass began with two executors or more, in which an executor
\* started a clone's executors and these were stepped too, and after which
\* an executor has ended
C32_Witness ==
    /\ lastOp = "tick" /\ hist.nExecutors >= 2 /\ hist.sameTick
    /\ Len(hist.stepped) > hist.nExecutors
    /\ \E i \in 1..Len(executors) : executors[i].gs = "done"

====
